---- MODULE Spec2Model ----
(***************************************************************************)
(* guacalib: the entity graph of a Guacamole relational store.             *)
(*                                                                         *)
(* The store is a record of tables.  Rows are keyed the way the store     *)
(* keys them: connection groups and connections by an auto-increment id   *)
(* with a unique name, entities by id with a unique (name, type),          *)
(* permission and membership tables by all their columns.  An INSERT of a  *)
(* row whose key is taken is refused by the store (mysql.connector.Error); *)
(* the store does no cascading of its own: every dependent row is removed  *)
(* by an explicit statement of the code or not at all.                     *)
(*                                                                         *)
(* Python values: None is the integer -1, the empty string is 0, names    *)
(* are 1..N, ids are positive integers (0 and negative ids are the invalid *)
(* ids a caller can pass).  An SQL NULL read back is None.                 *)
(***************************************************************************)
EXTENDS Integers, FiniteSets, Sequences, Bags, TLC

VARIABLES db, last, committed, pc, cmd, exc, commits, rollbacks, closed, snap

vars == <<db, last, committed, pc, cmd, exc, commits, rollbacks, closed, snap>>

txvars == <<committed, pc, cmd, exc, commits, rollbacks, closed, snap>>

\* ------------------------------------------------------------------ bounds
NumConnGroups == 3
MaxId == 3
NumUsers == 1
NumUserGroups == 1
NumConns == 1
NumLedgerGroups == 1
MaxLedgerId == 2

\* ------------------------------------------------------------ Python values
None == -1
EmptyStr == 0

Truthy(x) == x # None /\ x # 0

ConnGroupNames == 1..NumConnGroups
Ids == 1..MaxId
UserNames == 1..NumUsers
UserGroupNames == 1..NumUserGroups
ConnNames == 1..NumConns
LedgerGroupNames == 1..NumLedgerGroups

\* ------------------------------------------------------------------- store
\* cg      guacamole_connection_group             id -> [name, parent]
\* conn    guacamole_connection                   id -> [name, parent]
\* ent     guacamole_entity                       id -> [name, type]
\* usr     guacamole_user                         the entity ids with a user row
\* ug      guacamole_user_group                   user_group_id -> entity_id
\* mem     guacamole_user_group_member            <<user_group_id, member_entity_id>>
\* cperm   guacamole_connection_permission        <<entity_id, connection_id, permission>>
\* cgperm  guacamole_connection_group_permission  <<entity_id, connection_group_id, permission>>
\* ugperm  guacamole_user_group_permission        <<entity_id, affected_user_group_id, permission>>
\*         (a bag: the code guards its INSERT there with NOT EXISTS)
\* cparam  guacamole_connection_parameter         <<connection_id, parameter_name,
\*                                                  parameter_value>>
\* ucol    columns of guacamole_user rows           <<entity_id, column>> -> value,
\*                                                  where an UPDATE has set one
\* chist   guacamole_connection_history           the connection ids its records hold
\* cgSeq, connSeq, entSeq, ugSeq                  the next auto-increment id of each
EmptyStore ==
    [ cg      |-> << >>,
      cgSeq   |-> 1,
      conn    |-> << >>,
      connSeq |-> 1,
      ent     |-> << >>,
      entSeq  |-> 1,
      usr     |-> {},
      ug      |-> << >>,
      ugSeq   |-> 1,
      mem     |-> {},
      cperm   |-> {},
      cgperm  |-> {},
      ugperm  |-> EmptyBag,
      cparam  |-> {},
      chist   |-> {},
      ucol    |-> << >> ]

AddRow(table, id, row) ==
    [i \in DOMAIN table \cup {id} |-> IF i = id THEN row ELSE table[i]]

DropRow(table, id) == [i \in DOMAIN table \ {id} |-> table[i]]

\* SELECT connection_group_id ... WHERE connection_group_name = %s; fetchone()
CgIdByName(s, n) ==
    IF \E i \in DOMAIN s.cg : s.cg[i].name = n
    THEN CHOOSE i \in DOMAIN s.cg : s.cg[i].name = n
    ELSE None

\* SELECT connection_id FROM guacamole_connection WHERE connection_name = %s
ConnIdByName(s, n) ==
    IF \E i \in DOMAIN s.conn : s.conn[i].name = n
    THEN CHOOSE i \in DOMAIN s.conn : s.conn[i].name = n
    ELSE None

\* SELECT entity_id FROM guacamole_entity WHERE name = %s AND type = %s
EntId(s, n, type) ==
    IF \E e \in DOMAIN s.ent : s.ent[e].name = n /\ s.ent[e].type = type
    THEN CHOOSE e \in DOMAIN s.ent : s.ent[e].name = n /\ s.ent[e].type = type
    ELSE None

\* What a DELETE leaves of a bag of rows: the rows in kept, as often as before.
KeepRows(bag, kept) == [x \in kept |-> bag[x]]

\* SELECT user_group_id FROM guacamole_user_group JOIN guacamole_entity ...
UgIdByName(s, n) ==
    IF \E g \in DOMAIN s.ug : s.ug[g] = EntId(s, n, "USER_GROUP")
    THEN CHOOSE g \in DOMAIN s.ug : s.ug[g] = EntId(s, n, "USER_GROUP")
    ELSE None

Ret(s, r) == [db |-> s, res |-> r]

\* ------------------------------------------------------- cycle detection
\* The walk of check_connection_group_cycle: from parent_id upward until None
\* or group_id.  fuel counts the rows: a walk that outlives it is on a loop
\* that does not hold group_id and never returns.
RECURSIVE CycleWalk(_, _, _, _)
CycleWalk(cg, group_id, current_parent, fuel) ==
    IF current_parent = None THEN "nocycle"
    ELSE IF current_parent = group_id THEN "cycle"
    ELSE IF fuel = 0 THEN "diverges"
    ELSE CycleWalk(cg, group_id,
                   IF current_parent \in DOMAIN cg
                   THEN cg[current_parent].parent ELSE None,
                   fuel - 1)

\* A check that compares the proposed parent alone and does not walk.
check_cycle_no_walk(s, group_id, parent_id) ==
    IF parent_id # None /\ parent_id = group_id THEN "cycle" ELSE "nocycle"

check_connection_group_cycle(s, group_id, parent_id) ==
    IF parent_id = None THEN "nocycle"
    ELSE CycleWalk(s.cg, group_id, parent_id, Cardinality(DOMAIN s.cg) + 1)

\* -------------------------------------------------- connection group: create
create_connection_group(s, group_name, parent_group_name) ==
    LET parent_group_id == IF Truthy(parent_group_name)
                           THEN CgIdByName(s, parent_group_name) ELSE None
        walk == check_connection_group_cycle(s, None, parent_group_id)
        new  == s.cgSeq
    IN  IF Truthy(parent_group_name) /\ parent_group_id = None
        THEN Ret(s, "not_found")
        ELSE IF walk = "diverges" THEN Ret(s, "diverges")
        ELSE IF walk = "cycle" THEN Ret(s, "invalid_parent")
        ELSE IF CgIdByName(s, group_name) # None THEN Ret(s, "store_error")
        ELSE Ret([s EXCEPT !.cg = [i \in DOMAIN s.cg \cup {new} |->
                                      IF i = new
                                      THEN [name |-> group_name,
                                            parent |-> parent_group_id]
                                      ELSE s.cg[i]],
                           !.cgSeq = new + 1],
                 "ok")

\* ------------------------------------------------------------ the resolver
\* A resolver that tests its selectors by truth value.
resolve_conngroup_id_by_truth(s, group_name, group_id) ==
    IF Truthy(group_name) = Truthy(group_id)
    THEN [id |-> None, res |-> "validation", lookups |-> 0]
    ELSE IF Truthy(group_id)
    THEN IF group_id \in DOMAIN s.cg
         THEN [id |-> group_id, res |-> "ok", lookups |-> 1]
         ELSE [id |-> None, res |-> "not_found", lookups |-> 1]
    ELSE IF CgIdByName(s, group_name) = None
         THEN [id |-> None, res |-> "not_found", lookups |-> 1]
         ELSE [id |-> CgIdByName(s, group_name), res |-> "ok", lookups |-> 1]

\* db_utils.resolve_conngroup_id: exactly one of name / id, id positive, row
\* present.  res is "ok" with the id, or the error raised; lookups counts the
\* queries sent to the store.
resolve_conngroup_id(s, group_name, group_id) ==
    IF (group_name = None) = (group_id = None)
    THEN [id |-> None, res |-> "validation", lookups |-> 0]
    ELSE IF group_id # None
    THEN IF group_id <= 0 THEN [id |-> None, res |-> "validation", lookups |-> 0]
         ELSE IF group_id \in DOMAIN s.cg THEN [id |-> group_id, res |-> "ok", lookups |-> 1]
         ELSE [id |-> None, res |-> "not_found", lookups |-> 1]
    ELSE IF CgIdByName(s, group_name) = None
         THEN [id |-> None, res |-> "not_found", lookups |-> 1]
         ELSE [id |-> CgIdByName(s, group_name), res |-> "ok", lookups |-> 1]

\* BaseGuacamoleRepository._resolve_entity_id: ids are the keys the id query
\* finds, id_of_name the key the name query returns (None for no row).
resolve_entity_id(ids, id_of_name, entity_name, entity_id) ==
    IF (entity_name = None) = (entity_id = None)
    THEN [id |-> None, res |-> "validation", lookups |-> 0]
    ELSE IF entity_id # None
    THEN IF entity_id <= 0 THEN [id |-> None, res |-> "validation", lookups |-> 0]
         ELSE IF entity_id \in ids THEN [id |-> entity_id, res |-> "ok", lookups |-> 1]
         ELSE [id |-> None, res |-> "not_found", lookups |-> 1]
    ELSE IF id_of_name = None THEN [id |-> None, res |-> "not_found", lookups |-> 1]
         ELSE [id |-> id_of_name, res |-> "ok", lookups |-> 1]

\* ConnectionGroupRepository.resolve_conngroup_id
ConnectionGroupRepository_resolve_conngroup_id(s, group_name, group_id) ==
    resolve_entity_id(DOMAIN s.cg, CgIdByName(s, group_name), group_name, group_id)

\* ------------------------------------------------------------------ exists
\* conngroups_repo.connection_group_exists: selectors tested by truth value,
\* then SELECT COUNT(*) by name or by id.
connection_group_exists(s, group_name, group_id) ==
    IF ~Truthy(group_name) /\ ~Truthy(group_id) THEN "validation"
    ELSE IF Truthy(group_name) /\ Truthy(group_id) THEN "validation"
    ELSE IF Truthy(group_name)
    THEN IF CgIdByName(s, group_name) # None THEN "true" ELSE "false"
    ELSE IF group_id \in DOMAIN s.cg THEN "true" ELSE "false"

\* connections_repo.connection_exists: the same for connections.
connection_exists(s, connection_name, connection_id) ==
    IF ~Truthy(connection_name) /\ ~Truthy(connection_id) THEN "validation"
    ELSE IF Truthy(connection_name) /\ Truthy(connection_id) THEN "validation"
    ELSE IF Truthy(connection_name)
    THEN IF ConnIdByName(s, connection_name) # None THEN "true" ELSE "false"
    ELSE IF connection_id \in DOMAIN s.conn THEN "true" ELSE "false"

\* BaseGuacamoleRepository._entity_exists on the outcome r of
\* _resolve_entity_id: True on a return, False on EntityNotFoundError and on
\* ValidationError.
entity_exists(r) ==
    IF r.res = "ok" THEN "true"
    ELSE IF r.res = "not_found" THEN "false"
    ELSE IF r.res = "validation" THEN "false"
    ELSE r.res

\* ConnectionGroupRepository.connection_group_exists
ConnectionGroupRepository_connection_group_exists(s, group_name, group_id) ==
    entity_exists(ConnectionGroupRepository_resolve_conngroup_id(s, group_name,
                                                                 group_id))

\* UPDATE guacamole_connection_group SET parent_id = .. WHERE connection_group_id = ..
\* cursor.rowcount counts the rows the statement changed.
UpdateCgParent(s, id, parent) ==
    [s EXCEPT !.cg = [i \in DOMAIN s.cg |->
                         IF i = id THEN [s.cg[i] EXCEPT !.parent = parent]
                         ELSE s.cg[i]]]

CgParentRowcount(s, id, parent) ==
    Cardinality({i \in DOMAIN s.cg : i = id /\ s.cg[i].parent # parent})

\* The update issued before the walk is consulted.
SetCgParent_update_first(s, resolved_group_id, new_parent_name) ==
    LET new_parent_id == IF Truthy(new_parent_name)
                         THEN CgIdByName(s, new_parent_name) ELSE None
        walk == check_connection_group_cycle(s, resolved_group_id, new_parent_id)
        upd  == UpdateCgParent(s, resolved_group_id, new_parent_id)
    IN  IF Truthy(new_parent_name) /\ new_parent_id = None
        THEN Ret(s, "not_found")
        ELSE IF walk = "diverges" THEN Ret(upd, "diverges")
        ELSE IF walk = "cycle" THEN Ret(upd, "cycle")
        ELSE IF CgParentRowcount(s, resolved_group_id, new_parent_id) = 0
        THEN Ret(upd, "not_changed")
        ELSE Ret(upd, "ok")

\* A reparent that looks the empty name up like any other name.
SetCgParent_empty_is_name(s, resolved_group_id, new_parent_name) ==
    LET new_parent_id == IF new_parent_name # None
                         THEN CgIdByName(s, new_parent_name) ELSE None
        walk == check_connection_group_cycle(s, resolved_group_id, new_parent_id)
    IN  IF new_parent_name # None /\ new_parent_id = None
        THEN Ret(s, "not_found")
        ELSE IF walk = "diverges" THEN Ret(s, "diverges")
        ELSE IF walk = "cycle" THEN Ret(s, "cycle")
        ELSE IF CgParentRowcount(s, resolved_group_id, new_parent_id) = 0
        THEN Ret(UpdateCgParent(s, resolved_group_id, new_parent_id), "not_changed")
        ELSE Ret(UpdateCgParent(s, resolved_group_id, new_parent_id), "ok")

\* A reparent that does not read cursor.rowcount.
SetCgParent_ignore_rowcount(s, resolved_group_id, new_parent_name) ==
    LET new_parent_id == IF Truthy(new_parent_name)
                         THEN CgIdByName(s, new_parent_name) ELSE None
        walk == check_connection_group_cycle(s, resolved_group_id, new_parent_id)
    IN  IF Truthy(new_parent_name) /\ new_parent_id = None
        THEN Ret(s, "not_found")
        ELSE IF walk = "diverges" THEN Ret(s, "diverges")
        ELSE IF walk = "cycle" THEN Ret(s, "cycle")
        ELSE Ret(UpdateCgParent(s, resolved_group_id, new_parent_id), "ok")

\* The part of modify_connection_group_parent after the group is resolved:
\* resolve the new parent, walk for a cycle, update, check rowcount.
SetCgParent(s, resolved_group_id, new_parent_name) ==
    LET new_parent_id == IF Truthy(new_parent_name)
                         THEN CgIdByName(s, new_parent_name) ELSE None
        walk == check_connection_group_cycle(s, resolved_group_id, new_parent_id)
    IN  IF Truthy(new_parent_name) /\ new_parent_id = None
        THEN Ret(s, "not_found")
        ELSE IF walk = "diverges" THEN Ret(s, "diverges")
        ELSE IF walk = "cycle" THEN Ret(s, "cycle")
        ELSE IF CgParentRowcount(s, resolved_group_id, new_parent_id) = 0
        THEN Ret(UpdateCgParent(s, resolved_group_id, new_parent_id), "not_changed")
        ELSE Ret(UpdateCgParent(s, resolved_group_id, new_parent_id), "ok")

\* GuacamoleDB.modify_connection_group_parent (and the repository class of the
\* same name): the group comes from resolve_conngroup_id.
modify_connection_group_parent(s, group_name, group_id, new_parent_name) ==
    LET r == resolve_conngroup_id(s, group_name, group_id)
    IN  IF r.res # "ok" THEN Ret(s, r.res)
        ELSE SetCgParent(s, r.id, new_parent_name)

\* conngroups_repo.modify_connection_group_parent: the same steps with the
\* lookups written out; an id that is not positive is simply not found.
repo_modify_connection_group_parent(s, group_name, group_id, new_parent_name) ==
    IF (group_name = None) = (group_id = None) THEN Ret(s, "validation")
    ELSE IF group_id # None
    THEN IF group_id \in DOMAIN s.cg
         THEN SetCgParent(s, group_id, new_parent_name)
         ELSE Ret(s, "not_found")
    ELSE IF CgIdByName(s, group_name) = None THEN Ret(s, "not_found")
         ELSE SetCgParent(s, CgIdByName(s, group_name), new_parent_name)

\* -------------------------------------------------- connection group: delete
\* A delete that takes the children of the group with it.
DeleteCgRow_cascade(s, id) ==
    [s EXCEPT !.cg = [i \in {j \in DOMAIN s.cg : j # id /\ s.cg[j].parent # id}
                         |-> s.cg[i]],
              !.conn = [c \in {j \in DOMAIN s.conn : s.conn[j].parent # id}
                         |-> s.conn[c]]]

\* A delete that detaches every group and connection of the store.
DeleteCgRow_promote_all(s, id) ==
    [s EXCEPT !.cg = [i \in DOMAIN s.cg \ {id} |->
                         [s.cg[i] EXCEPT !.parent = None]],
              !.conn = [c \in DOMAIN s.conn |->
                         [s.conn[c] EXCEPT !.parent = None]]]

\* UPDATE ... SET parent_id = NULL WHERE parent_id = id (groups), then
\* DELETE FROM guacamole_connection_group WHERE connection_group_id = id.
DeleteCgRow(s, id) ==
    [s EXCEPT !.cg = [i \in DOMAIN s.cg \ {id} |->
                         IF s.cg[i].parent = id
                         THEN [s.cg[i] EXCEPT !.parent = None]
                         ELSE s.cg[i]],
              !.conn = [c \in DOMAIN s.conn |->
                         IF s.conn[c].parent = id
                         THEN [s.conn[c] EXCEPT !.parent = None]
                         ELSE s.conn[c]]]

\* conngroups_repo.delete_connection_group: selectors tested by truth value.
delete_connection_group(s, group_name, group_id) ==
    IF ~Truthy(group_name) /\ ~Truthy(group_id) THEN Ret(s, "validation")
    ELSE IF Truthy(group_name) /\ Truthy(group_id) THEN Ret(s, "validation")
    ELSE IF Truthy(group_name)
    THEN IF CgIdByName(s, group_name) = None THEN Ret(s, "not_found")
         ELSE Ret(DeleteCgRow(s, CgIdByName(s, group_name)), "ok")
    ELSE IF group_id \in DOMAIN s.cg
         THEN Ret(DeleteCgRow(s, group_id), "ok")
         ELSE Ret(s, "not_found")

\* ConnectionGroupRepository.delete_connection_group: the selector goes
\* through the repository's resolver, then the same three statements.
ConnectionGroupRepository_delete_connection_group(s, group_name, group_id) ==
    LET r == ConnectionGroupRepository_resolve_conngroup_id(s, group_name, group_id)
    IN  IF r.res # "ok" THEN Ret(s, r.res)
        ELSE Ret(DeleteCgRow(s, r.id), "ok")

\* ------------------------------------------------------------ users, groups
\* users_repo.create_user: INSERT the entity, INSERT the user row.
create_user(s, username) ==
    IF EntId(s, username, "USER") # None THEN Ret(s, "store_error")
    ELSE Ret([s EXCEPT !.ent = AddRow(s.ent, s.entSeq,
                                      [name |-> username, type |-> "USER"]),
                       !.usr = s.usr \cup {s.entSeq},
                       !.entSeq = s.entSeq + 1],
             "ok")

\* users_repo.delete_user: user-group permissions, memberships, connection
\* permissions, user row, entity row, each keyed by the entity of that name.
delete_user(s, username) ==
    LET e == EntId(s, username, "USER")
    IN  IF e = None THEN Ret(s, "not_found")
        ELSE Ret([s EXCEPT !.ugperm = KeepRows(s.ugperm,
                                         {x \in BagToSet(s.ugperm) : x[1] # e}),
                           !.mem    = {x \in s.mem : x[2] # e},
                           !.cperm  = {x \in s.cperm : x[1] # e},
                           !.usr    = s.usr \ {e},
                           !.ucol   = [k \in {x \in DOMAIN s.ucol : x[1] # e} |->
                                          s.ucol[k]],
                           !.ent    = DropRow(s.ent, e)],
                 "ok")

\* UserRepository.delete_existing_user: the same five statements after
\* user_exists.
UserRepository_delete_existing_user(s, username) == delete_user(s, username)

\* usergroups_repo.create_usergroup: INSERT the entity, INSERT the group row.
create_usergroup(s, group_name) ==
    IF EntId(s, group_name, "USER_GROUP") # None THEN Ret(s, "store_error")
    ELSE Ret([s EXCEPT !.ent = AddRow(s.ent, s.entSeq,
                                      [name |-> group_name, type |-> "USER_GROUP"]),
                       !.ug = AddRow(s.ug, s.ugSeq, s.entSeq),
                       !.entSeq = s.entSeq + 1,
                       !.ugSeq = s.ugSeq + 1],
             "ok")

\* usergroups_repo.delete_usergroup: memberships of the group, connection
\* permissions of its entity, group row, entity row.
delete_usergroup(s, group_name) ==
    LET e == EntId(s, group_name, "USER_GROUP")
        groups == {g \in DOMAIN s.ug : s.ug[g] = e}
    IN  IF e = None THEN Ret(s, "not_found")
        ELSE Ret([s EXCEPT !.mem   = {x \in s.mem : x[1] \notin groups},
                           !.cperm = {x \in s.cperm : x[1] # e},
                           !.ug    = [g \in DOMAIN s.ug \ groups |-> s.ug[g]],
                           !.ent   = DropRow(s.ent, e)],
                 "ok")

\* db_utils.resolve_usergroup_id and UserGroupRepository.resolve_usergroup_id:
\* exactly one of name / id, id positive, row present.
resolve_usergroup_id(s, group_name, group_id) ==
    IF (group_name = None) = (group_id = None)
    THEN [id |-> None, res |-> "validation", lookups |-> 0]
    ELSE IF group_id # None
    THEN IF group_id <= 0 THEN [id |-> None, res |-> "validation", lookups |-> 0]
         ELSE IF group_id \in DOMAIN s.ug THEN [id |-> group_id, res |-> "ok", lookups |-> 1]
         ELSE [id |-> None, res |-> "not_found", lookups |-> 1]
    ELSE IF UgIdByName(s, group_name) = None
         THEN [id |-> None, res |-> "not_found", lookups |-> 1]
         ELSE [id |-> UgIdByName(s, group_name), res |-> "ok", lookups |-> 1]

\* GuacamoleDB.delete_existing_usergroup_by_id: memberships of the group,
\* connection permissions of its entity, the group row; the last DELETE takes
\* the entities found by SELECT entity_id FROM guacamole_user_group WHERE
\* user_group_id = id, read after the group row is gone.
delete_existing_usergroup_by_id(s, group_id) ==
    LET r == resolve_usergroup_id(s, None, group_id)
        after == [s EXCEPT !.mem   = {x \in s.mem : x[1] # r.id},
                           !.cperm = {x \in s.cperm : x[1] # s.ug[r.id]},
                           !.ug    = DropRow(s.ug, r.id)]
        entities == {after.ug[g] : g \in {h \in DOMAIN after.ug : h = r.id}}
    IN  IF r.res # "ok" THEN Ret(s, r.res)
        ELSE Ret([after EXCEPT !.ent = [e \in DOMAIN after.ent \ entities
                                           |-> after.ent[e]]],
                 "ok")

\* UserGroupRepository.delete_existing_usergroup_by_id: the same statements.
UserGroupRepository_delete_existing_usergroup_by_id(s, group_id) ==
    delete_existing_usergroup_by_id(s, group_id)

\* UserGroupRepository.delete_existing_usergroup: the four DELETE statements
\* keyed by the name, with no look-up of the group before them.
UserGroupRepository_delete_existing_usergroup(s, group_name) ==
    LET e == EntId(s, group_name, "USER_GROUP")
        groups == {g \in DOMAIN s.ug : s.ug[g] = e}
    IN  Ret([s EXCEPT !.mem   = {x \in s.mem : x[1] \notin groups},
                      !.cperm = {x \in s.cperm : x[1] # e},
                      !.ug    = [g \in DOMAIN s.ug \ groups |-> s.ug[g]],
                      !.ent   = IF e = None THEN s.ent ELSE DropRow(s.ent, e)],
            "ok")

\* ------------------------------------------------------------- connections
\* The parameters create_connection writes for a new connection.
ConnectionParams == {"hostname", "port", "password"}

\* connections_repo.create_connection: the name must be free; parent_group_id
\* is stored as passed; one parameter row per entry of params.
create_connection(s, connection_name, parent_group_id) ==
    IF ~Truthy(connection_name) THEN Ret(s, "validation")
    ELSE IF ConnIdByName(s, connection_name) # None THEN Ret(s, "exists")
    ELSE Ret([s EXCEPT !.conn = AddRow(s.conn, s.connSeq,
                                       [name |-> connection_name,
                                        parent |-> parent_group_id]),
                       !.cparam = s.cparam \cup
                                  {<<s.connSeq, n, "created">> : n \in ConnectionParams},
                       !.connSeq = s.connSeq + 1],
             "ok")

\* DELETE history, parameters, permissions of the connection, then its row.
DeleteConnRow(s, id) ==
    [s EXCEPT !.chist  = s.chist \ {id},
              !.cparam = {x \in s.cparam : x[1] # id},
              !.cperm  = {x \in s.cperm : x[2] # id},
              !.conn   = DropRow(s.conn, id)]

\* connections_repo.delete_connection: selectors tested by truth value.
delete_connection(s, connection_name, connection_id) ==
    IF ~Truthy(connection_name) /\ ~Truthy(connection_id) THEN Ret(s, "validation")
    ELSE IF Truthy(connection_name) /\ Truthy(connection_id) THEN Ret(s, "validation")
    ELSE IF Truthy(connection_name)
    THEN IF ConnIdByName(s, connection_name) = None THEN Ret(s, "not_found")
         ELSE Ret(DeleteConnRow(s, ConnIdByName(s, connection_name)), "ok")
    ELSE IF connection_id \in DOMAIN s.conn
         THEN Ret(DeleteConnRow(s, connection_id), "ok")
         ELSE Ret(s, "not_found")

\* gc_manager.delete_existing_connection: parameters, permissions and the
\* connection row, each keyed by the name; nothing is looked up first.
gc_manager_delete_existing_connection(s, connection_name) ==
    LET ids == {c \in DOMAIN s.conn : s.conn[c].name = connection_name}
    IN  Ret([s EXCEPT !.cparam = {x \in s.cparam : x[1] \notin ids},
                      !.cperm  = {x \in s.cperm : x[2] \notin ids},
                      !.conn   = [c \in DOMAIN s.conn \ ids |-> s.conn[c]]],
            "ok")

\* gcmylib GuacamoleDB.delete_existing_connection: a name that is not found
\* is skipped with a plain return.
gcmylib_delete_existing_connection(s, connection_name) ==
    IF ConnIdByName(s, connection_name) = None THEN Ret(s, "ok")
    ELSE Ret(DeleteConnRow(s, ConnIdByName(s, connection_name)), "ok")

\* db_utils.resolve_connection_id: exactly one of name / id, id positive, row
\* present.
resolve_connection_id(s, connection_name, connection_id) ==
    IF (connection_name = None) = (connection_id = None)
    THEN [id |-> None, res |-> "validation", lookups |-> 0]
    ELSE IF connection_id # None
    THEN IF connection_id <= 0 THEN [id |-> None, res |-> "validation", lookups |-> 0]
         ELSE IF connection_id \in DOMAIN s.conn
         THEN [id |-> connection_id, res |-> "ok", lookups |-> 1]
         ELSE [id |-> None, res |-> "not_found", lookups |-> 1]
    ELSE IF ConnIdByName(s, connection_name) = None
         THEN [id |-> None, res |-> "not_found", lookups |-> 1]
         ELSE [id |-> ConnIdByName(s, connection_name), res |-> "ok", lookups |-> 1]

\* GuacamoleDB.modify_connection_parent_group: move a connection under the
\* named group, or to the root when group_name is empty or None.
modify_connection_parent_group(s, connection_name, connection_id, group_name) ==
    LET r == resolve_connection_id(s, connection_name, connection_id)
        group_id == IF Truthy(group_name) THEN CgIdByName(s, group_name) ELSE None
    IN  IF r.res # "ok" THEN Ret(s, r.res)
        ELSE IF Truthy(group_name) /\ group_id = None THEN Ret(s, "not_found")
        ELSE IF group_id = s.conn[r.id].parent THEN Ret(s, "not_changed")
        ELSE Ret([s EXCEPT !.conn = [c \in DOMAIN s.conn |->
                              IF c = r.id
                              THEN [s.conn[c] EXCEPT !.parent = group_id]
                              ELSE s.conn[c]]],
                 "ok")

\* ------------------------------------------------------- permission ledger
\* The rows of a permission table on the pair (entity e, resource r).
EdgesOn(table, e, r) == {x \in table : x[1] = e /\ x[2] = r}

\* permissions_repo.grant_connection_permission_to_user
grant_connection_permission_to_user(s, username, connection_name) ==
    LET connection_id == ConnIdByName(s, connection_name)
        entity_id == EntId(s, username, "USER")
    IN  IF connection_id = None THEN Ret(s, "not_found")
        ELSE IF entity_id = None THEN Ret(s, "not_found")
        ELSE IF EdgesOn(s.cperm, entity_id, connection_id) # {}
        THEN Ret(s, "exists")
        ELSE Ret([s EXCEPT !.cperm = s.cperm \cup
                              {<<entity_id, connection_id, "READ">>}], "ok")

\* A revoke that reports success and leaves the row in place.
revoke_connection_permission_keep_row(s, username, connection_name) ==
    LET connection_id == ConnIdByName(s, connection_name)
        entity_id == EntId(s, username, "USER")
    IN  IF connection_id = None THEN Ret(s, "not_found")
        ELSE IF entity_id = None THEN Ret(s, "not_found")
        ELSE IF EdgesOn(s.cperm, entity_id, connection_id) = {}
        THEN Ret(s, "no_permission")
        ELSE Ret(s, "ok")

\* permissions_repo.revoke_connection_permission_from_user
revoke_connection_permission_from_user(s, username, connection_name) ==
    LET connection_id == ConnIdByName(s, connection_name)
        entity_id == EntId(s, username, "USER")
    IN  IF connection_id = None THEN Ret(s, "not_found")
        ELSE IF entity_id = None THEN Ret(s, "not_found")
        ELSE IF EdgesOn(s.cperm, entity_id, connection_id) = {}
        THEN Ret(s, "no_permission")
        ELSE Ret([s EXCEPT !.cperm = s.cperm \
                              EdgesOn(s.cperm, entity_id, connection_id)], "ok")

\* A generic grant that writes a level of its own, 'UPDATE', for the pair.
grant_connection_permission_other_level(s, entity_name, entity_type, connection_id, group_path) ==
    LET entity_id == EntId(s, entity_name, entity_type)
    IN  IF entity_id = None THEN Ret(s, "ok")
        ELSE IF <<entity_id, connection_id, "UPDATE">> \in s.cperm
        THEN Ret(s, "store_error")
        ELSE Ret([s EXCEPT !.cperm = s.cperm \cup
                              {<<entity_id, connection_id, "UPDATE">>}], "ok")

\* permissions_repo.grant_connection_permission: the optional group_path is
\* resolved and the connection moved under it, then one INSERT ... SELECT adds
\* a READ row for every entity of that name and type.  Neither the entity nor
\* connection_id is looked up first; a row whose key is taken is refused by
\* the store.
grant_connection_permission(s, entity_name, entity_type, connection_id, group_path) ==
    LET parent_group_id == CgIdByName(s, group_path)
        moved == IF Truthy(group_path)
                 THEN [s EXCEPT !.conn = [c \in DOMAIN s.conn |->
                          IF c = connection_id
                          THEN [s.conn[c] EXCEPT !.parent = parent_group_id]
                          ELSE s.conn[c]]]
                 ELSE s
        entity_id == EntId(s, entity_name, entity_type)
    IN  IF Truthy(group_path) /\ parent_group_id = None THEN Ret(s, "not_found")
        ELSE IF entity_id = None THEN Ret(moved, "ok")
        ELSE IF <<entity_id, connection_id, "READ">> \in s.cperm
        THEN Ret(moved, "store_error")
        ELSE Ret([moved EXCEPT !.cperm = s.cperm \cup
                                  {<<entity_id, connection_id, "READ">>}], "ok")

\* permissions_repo.grant_connection_group_permission_to_user
repo_grant_connection_group_permission_to_user(s, username, conngroup_name) ==
    LET connection_group_id == CgIdByName(s, conngroup_name)
        entity_id == EntId(s, username, "USER")
    IN  IF connection_group_id = None THEN Ret(s, "not_found")
        ELSE IF entity_id = None THEN Ret(s, "not_found")
        ELSE IF EdgesOn(s.cgperm, entity_id, connection_group_id) # {}
        THEN Ret(s, "exists")
        ELSE Ret([s EXCEPT !.cgperm = s.cgperm \cup
                              {<<entity_id, connection_group_id, "READ">>}], "ok")

\* GuacamoleDB.grant_connection_group_permission_to_user: the arguments are
\* validated, both ends looked up, an existing READ row refused; then the
\* repository function above runs.
grant_connection_group_permission_to_user(s, username, conngroup_name) ==
    LET connection_group_id == CgIdByName(s, conngroup_name)
        entity_id == EntId(s, username, "USER")
    IN  IF ~Truthy(username) \/ ~Truthy(conngroup_name) THEN Ret(s, "validation")
        ELSE IF connection_group_id = None THEN Ret(s, "not_found")
        ELSE IF entity_id = None THEN Ret(s, "not_found")
        ELSE IF <<entity_id, connection_group_id, "READ">> \in s.cgperm
        THEN Ret(s, "exists")
        ELSE repo_grant_connection_group_permission_to_user(s, username, conngroup_name)

\* ConnectionGroupRepository.grant_connection_group_permission_to_user: a row
\* of the pair at another level is UPDATEd to READ, a READ row refused, no
\* row INSERTed.
ConnectionGroupRepository_grant_connection_group_permission_to_user(s, username, conngroup_name) ==
    LET connection_group_id == CgIdByName(s, conngroup_name)
        entity_id == EntId(s, username, "USER")
        existing == EdgesOn(s.cgperm, entity_id, connection_group_id)
        read == <<entity_id, connection_group_id, "READ">>
    IN  IF ~Truthy(username) \/ ~Truthy(conngroup_name) THEN Ret(s, "validation")
        ELSE IF connection_group_id = None THEN Ret(s, "not_found")
        ELSE IF entity_id = None THEN Ret(s, "not_found")
        ELSE IF read \in existing THEN Ret(s, "exists")
        ELSE Ret([s EXCEPT !.cgperm = (s.cgperm \ existing) \cup {read}], "ok")

\* A revoke that takes a missing row for a missing connection group.
repo_revoke_connection_group_permission_no_check(s, username, conngroup_name) ==
    LET connection_group_id == CgIdByName(s, conngroup_name)
        entity_id == EntId(s, username, "USER")
    IN  IF connection_group_id = None THEN Ret(s, "not_found")
        ELSE IF entity_id = None THEN Ret(s, "not_found")
        ELSE IF EdgesOn(s.cgperm, entity_id, connection_group_id) = {}
        THEN Ret(s, "not_found")
        ELSE Ret([s EXCEPT !.cgperm = s.cgperm \
                              EdgesOn(s.cgperm, entity_id, connection_group_id)], "ok")

\* permissions_repo.revoke_connection_group_permission_from_user
repo_revoke_connection_group_permission_from_user(s, username, conngroup_name) ==
    LET connection_group_id == CgIdByName(s, conngroup_name)
        entity_id == EntId(s, username, "USER")
    IN  IF connection_group_id = None THEN Ret(s, "not_found")
        ELSE IF entity_id = None THEN Ret(s, "not_found")
        ELSE IF EdgesOn(s.cgperm, entity_id, connection_group_id) = {}
        THEN Ret(s, "no_permission")
        ELSE Ret([s EXCEPT !.cgperm = s.cgperm \
                              EdgesOn(s.cgperm, entity_id, connection_group_id)], "ok")

\* GuacamoleDB.revoke_connection_group_permission_from_user
revoke_connection_group_permission_from_user(s, username, conngroup_name) ==
    IF ~Truthy(username) \/ ~Truthy(conngroup_name) THEN Ret(s, "validation")
    ELSE repo_revoke_connection_group_permission_from_user(s, username, conngroup_name)

\* grant, revoke, grant on one pair, each step on the store the step before
\* left; res names the first step that raised.
GrantRevokeGrant(first, revoked, second) ==
    IF first.res # "ok" THEN Ret(first.db, "first_grant_failed")
    ELSE IF revoked.res # "ok" THEN Ret(revoked.db, "revoke_failed")
    ELSE IF second.res # "ok" THEN Ret(second.db, "second_grant_failed")
    ELSE Ret(second.db, "ok")

grant_revoke_grant_connection(s, username, connection_name) ==
    LET first   == grant_connection_permission_to_user(s, username, connection_name)
        revoked == revoke_connection_permission_from_user(first.db, username,
                                                          connection_name)
        second  == grant_connection_permission_to_user(revoked.db, username,
                                                       connection_name)
    IN  GrantRevokeGrant(first, revoked, second)

grant_revoke_grant_conngroup(s, username, conngroup_name) ==
    LET first   == grant_connection_group_permission_to_user(s, username,
                                                             conngroup_name)
        revoked == revoke_connection_group_permission_from_user(first.db, username,
                                                                conngroup_name)
        second  == grant_connection_group_permission_to_user(revoked.db, username,
                                                             conngroup_name)
    IN  GrantRevokeGrant(first, revoked, second)

\* GuacamoleDB.grant_connection_group_permission_to_user_by_id: as by name,
\* with the group taken by its id, which must be a positive integer.
grant_connection_group_permission_to_user_by_id(s, username, conngroup_id) ==
    LET entity_id == EntId(s, username, "USER")
    IN  IF ~Truthy(username) THEN Ret(s, "validation")
        ELSE IF conngroup_id = None \/ conngroup_id <= 0 THEN Ret(s, "validation")
        ELSE IF conngroup_id \notin DOMAIN s.cg THEN Ret(s, "not_found")
        ELSE IF entity_id = None THEN Ret(s, "not_found")
        ELSE IF EdgesOn(s.cgperm, entity_id, conngroup_id) # {}
        THEN Ret(s, "exists")
        ELSE Ret([s EXCEPT !.cgperm = s.cgperm \cup
                              {<<entity_id, conngroup_id, "READ">>}], "ok")

\* GuacamoleDB.revoke_connection_group_permission_from_user_by_id
revoke_connection_group_permission_from_user_by_id(s, username, conngroup_id) ==
    LET entity_id == EntId(s, username, "USER")
    IN  IF ~Truthy(username) THEN Ret(s, "validation")
        ELSE IF conngroup_id = None \/ conngroup_id <= 0 THEN Ret(s, "validation")
        ELSE IF conngroup_id \notin DOMAIN s.cg THEN Ret(s, "not_found")
        ELSE IF entity_id = None THEN Ret(s, "not_found")
        ELSE IF EdgesOn(s.cgperm, entity_id, conngroup_id) = {}
        THEN Ret(s, "no_permission")
        ELSE Ret([s EXCEPT !.cgperm = s.cgperm \
                              EdgesOn(s.cgperm, entity_id, conngroup_id)], "ok")

\* An add that writes the membership row only.
add_user_to_usergroup_member_only(s, username, group_name) ==
    LET group_id == UgIdByName(s, group_name)
        user_entity_id == EntId(s, username, "USER")
    IN  IF group_id = None THEN Ret(s, "not_found")
        ELSE IF user_entity_id = None THEN Ret(s, "not_found")
        ELSE IF <<group_id, user_entity_id>> \in s.mem THEN Ret(s, "store_error")
        ELSE Ret([s EXCEPT !.mem = s.mem \cup {<<group_id, user_entity_id>>}],
                 "ok")

\* An add that writes the READ row without asking whether it is there.
add_user_to_usergroup_blind_insert(s, username, group_name) ==
    LET group_id == UgIdByName(s, group_name)
        user_entity_id == EntId(s, username, "USER")
    IN  IF group_id = None THEN Ret(s, "not_found")
        ELSE IF user_entity_id = None THEN Ret(s, "not_found")
        ELSE Ret([s EXCEPT !.mem = s.mem \cup {<<group_id, user_entity_id>>},
                           !.ugperm = s.ugperm (+)
                                      SetToBag({<<user_entity_id, group_id, "READ">>})],
                 "ok")

\* ------------------------------------------------------------- membership
\* permissions_repo.add_user_to_usergroup: INSERT the membership row, then
\* INSERT the member's READ row on the group WHERE NOT EXISTS such a row.
add_user_to_usergroup(s, username, group_name) ==
    LET group_id == UgIdByName(s, group_name)
        user_entity_id == EntId(s, username, "USER")
    IN  IF group_id = None THEN Ret(s, "not_found")
        ELSE IF user_entity_id = None THEN Ret(s, "not_found")
        ELSE IF <<group_id, user_entity_id>> \in s.mem THEN Ret(s, "store_error")
        ELSE Ret([s EXCEPT !.mem = s.mem \cup {<<group_id, user_entity_id>>},
                           !.ugperm =
                               IF BagIn(<<user_entity_id, group_id, "READ">>, s.ugperm)
                               THEN s.ugperm
                               ELSE s.ugperm (+)
                                    SetToBag({<<user_entity_id, group_id, "READ">>})],
                 "ok")

\* gcmylib GuacamoleDB.add_user_to_group: the same two INSERTs; the group is
\* looked up by get_group_id, the user's entity by fetchone()[0].
add_user_to_group(s, username, group_name) ==
    LET r == add_user_to_usergroup(s, username, group_name)
    IN  IF UgIdByName(s, group_name) # None /\ EntId(s, username, "USER") = None
        THEN Ret(s, "type_error")
        ELSE r

\* permissions_repo.remove_user_from_usergroup: DELETE the membership row and
\* every user-group permission row of the pair.
remove_user_from_usergroup(s, username, group_name) ==
    LET group_id == UgIdByName(s, group_name)
        user_entity_id == EntId(s, username, "USER")
    IN  IF group_id = None THEN Ret(s, "not_found")
        ELSE IF user_entity_id = None THEN Ret(s, "not_found")
        ELSE IF <<group_id, user_entity_id>> \notin s.mem THEN Ret(s, "not_member")
        ELSE Ret([s EXCEPT !.mem = s.mem \ {<<group_id, user_entity_id>>},
                           !.ugperm = KeepRows(s.ugperm,
                                          {x \in BagToSet(s.ugperm) :
                                               ~(/\ x[1] = user_entity_id
                                                 /\ x[2] = group_id)})],
                 "ok")

\* ------------------------------------------------------------- parameters
\* db_connection_parameters.CONNECTION_PARAMETERS: the allowed parameter
\* names. Each of these is kept in guacamole_connection_parameter.
CONNECTION_PARAMETERS == {"hostname", "port", "password", "color-depth",
                          "read-only"}

\* db_user_parameters.USER_PARAMETERS: 'disabled' is of type tinyint.
USER_PARAMETERS == {"disabled"}

\* str.lower() on the values the callers of this model pass.
Lower(param_value) == IF param_value = "TRUE" THEN "true" ELSE param_value

\* int() on "0" and "1".
ToInt(param_value) == IF param_value = "1" THEN 1 ELSE 0

ParamRows(s, connection_id, param_name) ==
    {x \in s.cparam : x[1] = connection_id /\ x[2] = param_name}

\* The parameter-table branch of modify_connection_parameter on a resolved
\* connection; rowcount is the rows the last statement changed.
SetConnectionParameter(s, resolved_connection_id, param_name, param_value) ==
    LET rows == ParamRows(s, resolved_connection_id, param_name)
        set(v) == [s EXCEPT !.cparam = (s.cparam \ rows) \cup
                                      {<<resolved_connection_id, param_name, v>>}]
        unchanged(v) == rows # {} /\ \A x \in rows : x[3] = v
    IN  IF param_name = "read-only"
        THEN IF Lower(param_value) \notin {"true", "false"}
             THEN Ret(s, "validation")
             ELSE IF Lower(param_value) = "true"
             THEN IF unchanged("true") THEN Ret(s, "not_changed")
                  ELSE Ret(set("true"), "ok")
             ELSE IF rows = {} THEN Ret(s, "not_changed")
                  ELSE Ret([s EXCEPT !.cparam = s.cparam \ rows], "ok")
        ELSE IF param_name = "color-depth"
                /\ param_value \notin {"8", "16", "24", "32"}
        THEN Ret(s, "validation")
        ELSE IF unchanged(param_value) THEN Ret(s, "not_changed")
        ELSE Ret(set(param_value), "ok")

\* connections_repo.modify_connection_parameter: the selectors by truth
\* value, the name against the allow-list, the connection looked up, the
\* value stored, and 'Failed to update' when cursor.rowcount is 0.
modify_connection_parameter(s, connection_name, connection_id, param_name, param_value) ==
    IF ~Truthy(connection_name) /\ ~Truthy(connection_id) THEN Ret(s, "validation")
    ELSE IF Truthy(connection_name) /\ Truthy(connection_id) THEN Ret(s, "validation")
    ELSE IF param_name \notin CONNECTION_PARAMETERS THEN Ret(s, "validation")
    ELSE IF Truthy(connection_name)
    THEN IF ConnIdByName(s, connection_name) = None THEN Ret(s, "not_found")
         ELSE SetConnectionParameter(s, ConnIdByName(s, connection_name),
                                     param_name, param_value)
    ELSE IF connection_id \notin DOMAIN s.conn THEN Ret(s, "not_found")
         ELSE SetConnectionParameter(s, connection_id, param_name, param_value)

\* UPDATE guacamole_user SET column = value WHERE entity_id: the row is
\* changed unless the column is known to hold the value already.
SetUserColumn(s, entity_id, column, value) ==
    IF <<entity_id, column>> \in DOMAIN s.ucol
       /\ s.ucol[<<entity_id, column>>] = value
    THEN Ret(s, "not_changed")
    ELSE Ret([s EXCEPT !.ucol = [k \in DOMAIN s.ucol \cup
                                      {<<entity_id, column>>} |->
                                   IF k = <<entity_id, column>> THEN value
                                   ELSE s.ucol[k]]], "ok")

\* users_repo.modify_user_parameter: the name against USER_PARAMETERS, a
\* tinyint value against ("0", "1"), the user looked up, the column updated,
\* and 'Failed to update' when cursor.rowcount is 0.
modify_user_parameter(s, username, param_name, param_value) ==
    IF param_name \notin USER_PARAMETERS THEN Ret(s, "validation")
    ELSE IF param_value \notin {"0", "1"} THEN Ret(s, "validation")
    ELSE IF EntId(s, username, "USER") = None THEN Ret(s, "not_found")
    ELSE SetUserColumn(s, EntId(s, username, "USER"), param_name,
                       ToInt(param_value))

\* users_repo.change_user_password: a new salt, the hash of the password
\* with it, the user looked up, hash and salt stored.
change_user_password(s, username, new_password, salt) ==
    IF EntId(s, username, "USER") = None THEN Ret(s, "not_found")
    ELSE SetUserColumn(s, EntId(s, username, "USER"), "password",
                       <<new_password, salt>>)

\* ===================================================== the hierarchy manager
\* One engine call per step on the working store; last records the call and
\* its result.
NoCall == [op |-> "none", name |-> None, id |-> None, parent |-> None,
           res |-> "none"]

Call(op, name, id, parent, r) ==
    /\ db' = r.db
    /\ last' = [op |-> op, name |-> name, id |-> id, parent |-> parent,
                res |-> r.res]

\* The selectors a caller can pass: a name, an id, and the malformed pairs.
BadSelectors == {<<None, None>>, <<1, 1>>, <<None, 0>>, <<None, -2>>}
GoodSelectors == {<<n, None>> : n \in ConnGroupNames}
                 \cup {<<None, i>> : i \in Ids}
Selectors == GoodSelectors \cup BadSelectors
ParentNames == ConnGroupNames \cup {None, EmptyStr}
\* The malformed selectors are tried with one parent argument only.
ReparentArgs == (GoodSelectors \X ParentNames) \cup (BadSelectors \X {None})

TxIdle ==
    /\ committed = EmptyStore
    /\ pc = "idle"
    /\ cmd = << >>
    /\ exc = "none"
    /\ commits = 0
    /\ rollbacks = 0
    /\ closed = FALSE
    /\ snap = EmptyStore

InitTree ==
    /\ db = EmptyStore
    /\ last = NoCall
    /\ TxIdle

\* Names are opaque: a caller creating a group passes a name in use or the
\* first name not in use (the highest, so that names and ids differ).
UsedCgNames(s) == {s.cg[i].name : i \in DOMAIN s.cg}

CreateNames(s) ==
    UsedCgNames(s) \cup
    {n \in ConnGroupNames \ UsedCgNames(s) :
        \A m \in ConnGroupNames \ UsedCgNames(s) : m <= n}

CreateConnectionGroup ==
    \E n \in CreateNames(db), p \in ParentNames :
        /\ db.cgSeq <= MaxId
        /\ Call("create", n, None, p, create_connection_group(db, n, p))
        /\ UNCHANGED txvars

ModifyConnectionGroupParent ==
    \E a \in ReparentArgs :
        /\ Call("reparent", a[1][1], a[1][2], a[2],
                modify_connection_group_parent(db, a[1][1], a[1][2], a[2]))
        /\ UNCHANGED txvars

RepoModifyConnectionGroupParent ==
    \E a \in ReparentArgs :
        /\ Call("repo_reparent", a[1][1], a[1][2], a[2],
                repo_modify_connection_group_parent(db, a[1][1], a[1][2], a[2]))
        /\ UNCHANGED txvars

DeleteConnectionGroup ==
    \E sel \in Selectors :
        /\ Call("delete", sel[1], sel[2], None,
                delete_connection_group(db, sel[1], sel[2]))
        /\ UNCHANGED txvars

NextTree ==
    \/ CreateConnectionGroup
    \/ ModifyConnectionGroupParent
    \/ RepoModifyConnectionGroupParent
    \/ DeleteConnectionGroup

SpecTree == InitTree /\ [][NextTree]_vars

\* ----------------------------------------------------- tree vocabulary
\* The ancestors of group i in table cg, its parent first.
RECURSIVE AncestorsFrom(_, _, _)
AncestorsFrom(cg, i, fuel) ==
    IF i = None \/ i \notin DOMAIN cg \/ fuel = 0 THEN {}
    ELSE IF cg[i].parent = None THEN {}
    ELSE {cg[i].parent} \cup AncestorsFrom(cg, cg[i].parent, fuel - 1)

Ancestors(cg, i) == AncestorsFrom(cg, i, Cardinality(DOMAIN cg))

Acyclic(cg) == \A i \in DOMAIN cg : i \notin Ancestors(cg, i)

\* C1: from an empty (hence acyclic) store, after any sequence of create,
\* reparent and delete calls no connection group is its own ancestor.
C1_Acyclic == Acyclic(db.cg)

\* A chain of three groups has been built and the lowest one reparented.
C1_Witness ==
    /\ last.op \in {"reparent", "repo_reparent"} /\ last.res = "ok"
    /\ \E i \in DOMAIN db.cg : Cardinality(Ancestors(db.cg, i)) >= 2

\* The group and the proposed parent a reparent call names, looked up in store s.
IsReparent(c) == c.op \in {"reparent", "repo_reparent"}

OneSelector(c) == (c.name = None) # (c.id = None)

CalledGroup(s, c) == IF c.id # None THEN c.id ELSE CgIdByName(s, c.name)

CalledParent(s, c) == IF Truthy(c.parent) THEN CgIdByName(s, c.parent) ELSE None

\* Call c asks to put a group under one of its own descendants in store s.
UnderDescendant(s, c) ==
    /\ IsReparent(c) /\ OneSelector(c)
    /\ CalledGroup(s, c) \in DOMAIN s.cg
    /\ CalledParent(s, c) \in DOMAIN s.cg
    /\ CalledGroup(s, c) \in Ancestors(s.cg, CalledParent(s, c))

\* C2: a reparent of group A under a descendant of A raises the cycle error
\* and leaves every group's parent pointer as it was.
C2_CycleRejected ==
    [][UnderDescendant(db, last') => last'.res = "cycle" /\ db'.cg = db.cg]_vars

\* A reparent under a grandchild has just been refused.
C2_Witness ==
    /\ UnderDescendant(db, last)
    /\ last.res = "cycle"
    /\ Cardinality(Ancestors(db.cg, CalledParent(db, last))) >= 2

\* ======================================================= the permission ledger
\* One engine call per step.  last.name is the principal's name, last.parent
\* the resource's name, last.id the resource's id where the call takes an id.
InitLedger ==
    /\ db = EmptyStore
    /\ last = NoCall
    /\ TxIdle

CreateUser ==
    \E u \in UserNames :
        /\ db.entSeq <= MaxLedgerId
        /\ Call("create_user", u, None, None, create_user(db, u))
        /\ UNCHANGED txvars

DeleteUser ==
    \E u \in UserNames :
        /\ Call("delete_user", u, None, None, delete_user(db, u))
        /\ UNCHANGED txvars

CreateUsergroup ==
    \E g \in UserGroupNames :
        /\ db.entSeq <= MaxLedgerId
        /\ Call("create_usergroup", g, None, None, create_usergroup(db, g))
        /\ UNCHANGED txvars

DeleteUsergroup ==
    \E g \in UserGroupNames :
        /\ Call("delete_usergroup", g, None, None, delete_usergroup(db, g))
        /\ UNCHANGED txvars

CreateConnection ==
    \E c \in ConnNames, p \in {None} \cup DOMAIN db.cg :
        /\ db.connSeq <= MaxLedgerId
        /\ Call("create_connection", None, p, c, create_connection(db, c, p))
        /\ UNCHANGED txvars

DeleteConnection ==
    \E c \in ConnNames :
        /\ Call("delete_connection", None, None, c, delete_connection(db, c, None))
        /\ UNCHANGED txvars

LedgerCreateConnectionGroup ==
    \E n \in LedgerGroupNames :
        /\ db.cgSeq <= MaxLedgerId
        /\ Call("create_conngroup", None, None, n,
                create_connection_group(db, n, None))
        /\ UNCHANGED txvars

LedgerDeleteConnectionGroup ==
    \E n \in LedgerGroupNames :
        /\ Call("delete_conngroup", None, None, n,
                delete_connection_group(db, n, None))
        /\ UNCHANGED txvars

GrantConnectionPermissionToUser ==
    \E u \in UserNames, c \in ConnNames :
        /\ Call("grant_conn", u, None, c,
                grant_connection_permission_to_user(db, u, c))
        /\ UNCHANGED txvars

RevokeConnectionPermissionFromUser ==
    \E u \in UserNames, c \in ConnNames :
        /\ Call("revoke_conn", u, None, c,
                revoke_connection_permission_from_user(db, u, c))
        /\ UNCHANGED txvars

\* The generic grant takes the entity's name and type and the connection's id.
GrantConnectionPermission ==
    \E ty \in {"USER", "USER_GROUP"}, i \in 1..MaxLedgerId :
      \E n \in IF ty = "USER" THEN UserNames ELSE UserGroupNames :
        /\ Call(IF ty = "USER" THEN "grant_generic_user" ELSE "grant_generic_group",
                n, i, None, grant_connection_permission(db, n, ty, i, None))
        /\ UNCHANGED txvars

GrantConnectionGroupPermissionToUser ==
    \E u \in UserNames, g \in LedgerGroupNames :
        /\ Call("grant_conngroup", u, None, g,
                grant_connection_group_permission_to_user(db, u, g))
        /\ UNCHANGED txvars

RevokeConnectionGroupPermissionFromUser ==
    \E u \in UserNames, g \in LedgerGroupNames :
        /\ Call("revoke_conngroup", u, None, g,
                revoke_connection_group_permission_from_user(db, u, g))
        /\ UNCHANGED txvars

AddUserToUsergroup ==
    \E u \in UserNames, g \in UserGroupNames :
        /\ Call("add_member", u, None, g, add_user_to_usergroup(db, u, g))
        /\ UNCHANGED txvars

GcmylibAddUserToGroup ==
    \E u \in UserNames, g \in UserGroupNames :
        /\ Call("gcmylib_add_member", u, None, g, add_user_to_group(db, u, g))
        /\ UNCHANGED txvars

RemoveUserFromUsergroup ==
    \E u \in UserNames, g \in UserGroupNames :
        /\ Call("remove_member", u, None, g, remove_user_from_usergroup(db, u, g))
        /\ UNCHANGED txvars

GrantRevokeGrantConnection ==
    \E u \in UserNames, c \in ConnNames :
        /\ Call("grant_revoke_grant_conn", u, None, c,
                grant_revoke_grant_connection(db, u, c))
        /\ UNCHANGED txvars

GrantRevokeGrantConnectionGroup ==
    \E u \in UserNames, g \in LedgerGroupNames :
        /\ Call("grant_revoke_grant_conngroup", u, None, g,
                grant_revoke_grant_conngroup(db, u, g))
        /\ UNCHANGED txvars

NextLedger ==
    \/ CreateUser
    \/ DeleteUser
    \/ CreateUsergroup
    \/ DeleteUsergroup
    \/ CreateConnection
    \/ DeleteConnection
    \/ LedgerCreateConnectionGroup
    \/ LedgerDeleteConnectionGroup
    \/ GrantConnectionPermissionToUser
    \/ RevokeConnectionPermissionFromUser
    \/ GrantConnectionPermission
    \/ GrantConnectionGroupPermissionToUser
    \/ RevokeConnectionGroupPermissionFromUser
    \/ AddUserToUsergroup
    \/ GcmylibAddUserToGroup
    \/ RemoveUserFromUsergroup
    \/ GrantRevokeGrantConnection
    \/ GrantRevokeGrantConnectionGroup

SpecLedger == InitLedger /\ [][NextLedger]_vars

\* ----------------------------------------------------- ledger vocabulary
\* The principal, the resource and the table a ledger call names, looked up
\* in store s the way the call looks them up.
GenericGrantOps == {"grant_generic_user", "grant_generic_group"}

ConnGroupLedgerOps == {"grant_conngroup", "revoke_conngroup",
                       "grant_revoke_grant_conngroup"}

GrantOps == {"grant_conn", "grant_conngroup"} \cup GenericGrantOps

RevokeOps == {"revoke_conn", "revoke_conngroup"}

ScenarioOps == {"grant_revoke_grant_conn", "grant_revoke_grant_conngroup"}

CalledEntity(s, c) ==
    EntId(s, c.name, IF c.op = "grant_generic_group" THEN "USER_GROUP" ELSE "USER")

CalledResource(s, c) ==
    IF c.op \in GenericGrantOps
    THEN (IF c.id \in DOMAIN s.conn THEN c.id ELSE None)
    ELSE IF c.op \in ConnGroupLedgerOps THEN CgIdByName(s, c.parent)
    ELSE ConnIdByName(s, c.parent)

CalledTable(s, c) == IF c.op \in ConnGroupLedgerOps THEN s.cgperm ELSE s.cperm

CalledEdges(s, c) == EdgesOn(CalledTable(s, c), CalledEntity(s, c), CalledResource(s, c))

BothEndsExist(s, c) == CalledEntity(s, c) # None /\ CalledResource(s, c) # None

OneEdgePerPair(table) ==
    \A x \in table, y \in table : x[1] = y[1] /\ x[2] = y[2] => x = y

C7_DuplicateGrantConflict ==
    [][last'.op \in GrantOps /\ BothEndsExist(db, last') /\ CalledEdges(db, last') # {}
       => last'.res = "exists" /\ db' = db]_vars

\* C8: a revoke on a pair without an edge, both ends existing, raises the
\* "no permission" error, which is not the not-found error, and writes nothing.
C8_RevokeAbsentConflict ==
    [][last'.op \in RevokeOps /\ BothEndsExist(db, last') /\ CalledEdges(db, last') = {}
       => last'.res = "no_permission" /\ db' = db]_vars

\* Each revoke has been refused for a missing edge between existing ends.
C8_Witness ==
    /\ last.op = "revoke_conngroup" /\ last.res = "no_permission"
    /\ BothEndsExist(db, last)
    /\ db.cperm # {}

\* C9: on an existing principal and resource with no edge between them, grant,
\* revoke, grant succeed all three and leave exactly one edge on the pair.
C9_GrantRevokeGrant ==
    [][last'.op \in ScenarioOps /\ BothEndsExist(db, last') /\ CalledEdges(db, last') = {}
       => last'.res = "ok" /\ Cardinality(CalledEdges(db', last')) = 1]_vars

\* The three steps have run on a connection and left the pair's one edge.
C9_Witness ==
    /\ last.op = "grant_revoke_grant_conn" /\ last.res = "ok"
    /\ Cardinality(CalledEdges(db, last)) = 1

\* C10: every permission row names an entity that exists and a connection,
\* connection group or user group that exists.
C10_EdgesReferenceExisting ==
    /\ \A x \in db.cperm  : x[1] \in DOMAIN db.ent /\ x[2] \in DOMAIN db.conn
    /\ \A x \in db.cgperm : x[1] \in DOMAIN db.ent /\ x[2] \in DOMAIN db.cg
    /\ \A x \in BagToSet(db.ugperm) : x[1] \in DOMAIN db.ent /\ x[2] \in DOMAIN db.ug

\* ================================================= the command transaction
\* One CLI invocation: `with GuacamoleDB(...) as guacdb:` around
\* handle_conngroup_command(args, guacdb), subcommand 'modify'.
\*   committed  the rows other sessions see           db  this session's view
\*   snap       committed when the command began      cmd the parsed arguments
\*   exc        the exception in flight               pc  where the command is
\*   commits, rollbacks, closed   what the session has been told to do
\* conn.commit() makes db the committed store; conn.rollback() restores db
\* from it.  The session is a GuacamoleDB or a BaseGuacamoleRepository that
\* owns its connection; they differ in __exit__ alone, so which one the
\* command runs in shows when the with block is left.
Commit ==
    /\ committed' = db
    /\ commits' = commits + 1

\* The committed store of a deployment with two connection groups, one
\* connection and one user.
TxStore ==
    create_user(
        create_connection(
            create_connection_group(
                create_connection_group(EmptyStore, 1, None).db, 2, None).db,
            1, None).db,
        1).db

\* args: the group by --name or --id; --parent; --addconn-by-name or
\* --rmconn-by-name; --permit or --deny.  fault: the store fails the parent
\* UPDATE (mysql.connector.Error).
TxSelectors == {<<1, None>>, <<2, None>>, <<None, 1>>, <<None, 3>>}

TxParents == {None, EmptyStr, 1, 2}

TxConnArgs == {<<"none", None>>, <<"add", 1>>, <<"rm", 1>>, <<"add", 2>>}

TxPermArgs == {<<"none", None>>, <<"permit", 1>>, <<"deny", 1>>, <<"permit", 2>>}

InitTxn ==
    /\ db = TxStore
    /\ committed = TxStore
    /\ snap = TxStore
    /\ last = NoCall
    /\ pc = "idle"
    /\ cmd = << >>
    /\ exc = "none"
    /\ commits = 0
    /\ rollbacks = 0
    /\ closed = FALSE

\* __enter__: a new session on the committed store; the handler is entered.
Begin ==
    /\ pc = "idle"
    /\ \E sel \in TxSelectors, p \in TxParents, c \in TxConnArgs, g \in TxPermArgs,
          f \in BOOLEAN :
          /\ f => p # None
          /\ cmd' = [name |-> sel[1], id |-> sel[2], parent |-> p,
                     conn |-> c[1], connName |-> c[2],
                     perm |-> g[1], user |-> g[2],
                     fault |-> f]
    /\ pc' = "resolve"
    /\ UNCHANGED <<db, last, committed, exc, commits, rollbacks, closed, snap>>

\* The handler's group_name: the name of the group --id names, else --name.
TxGroupName == IF cmd.id # None THEN db.cg[cmd.id].name ELSE cmd.name

\* With --id, get_connection_group_name_by_id; no such group: sys.exit(1).
Resolve ==
    /\ pc = "resolve"
    /\ IF cmd.id # None /\ cmd.id \notin DOMAIN db.cg
       THEN exc' = "SystemExit1" /\ pc' = "exit"
       ELSE exc' = exc /\ pc' = "parent"
    /\ UNCHANGED <<db, last, committed, cmd, commits, rollbacks, closed, snap>>

\* --parent: modify_connection_group_parent, then guacdb.conn.commit().
ParentStep ==
    /\ pc = "parent"
    /\ LET r == modify_connection_group_parent(db, cmd.name, cmd.id, cmd.parent)
       IN  IF cmd.parent = None
           THEN /\ pc' = "conn"
                /\ UNCHANGED <<db, committed, exc, commits>>
           ELSE IF cmd.fault
           THEN /\ exc' = "Error" /\ pc' = "except"
                /\ UNCHANGED <<db, committed, commits>>
           ELSE IF r.res = "ok"
           THEN /\ db' = r.db
                /\ committed' = r.db
                /\ commits' = commits + 1
                /\ pc' = "conn"
                /\ exc' = exc
           ELSE /\ r.res # "diverges"
                /\ exc' = "ValueError" /\ pc' = "except"
                /\ UNCHANGED <<db, committed, commits>>
    /\ UNCHANGED <<last, cmd, rollbacks, closed, snap>>

\* --addconn-by-name / --rmconn-by-name: modify_connection_parent_group.
ConnStep ==
    /\ pc = "conn"
    /\ LET r == modify_connection_parent_group(
                    db, cmd.connName, None,
                    IF cmd.conn = "add" THEN TxGroupName ELSE None)
       IN  IF cmd.conn = "none"
           THEN pc' = "perm" /\ UNCHANGED <<db, exc>>
           ELSE IF r.res = "ok"
           THEN db' = r.db /\ pc' = "perm" /\ exc' = exc
           ELSE exc' = "ValueError" /\ pc' = "except" /\ db' = db
    /\ UNCHANGED <<last, committed, cmd, commits, rollbacks, closed, snap>>

\* --permit / --deny: grant or revoke, by id when the group came by --id.
PermStep ==
    /\ pc = "perm"
    /\ LET r == IF cmd.perm = "permit"
                THEN (IF cmd.id # None
                      THEN grant_connection_group_permission_to_user_by_id(
                               db, cmd.user, cmd.id)
                      ELSE grant_connection_group_permission_to_user(
                               db, cmd.user, cmd.name))
                ELSE (IF cmd.id # None
                      THEN revoke_connection_group_permission_from_user_by_id(
                               db, cmd.user, cmd.id)
                      ELSE revoke_connection_group_permission_from_user(
                               db, cmd.user, cmd.name))
       IN  IF cmd.perm = "none"
           THEN pc' = "finish" /\ UNCHANGED <<db, exc>>
           ELSE IF r.res = "ok"
           THEN db' = r.db /\ pc' = "finish" /\ exc' = exc
           ELSE exc' = "ValueError" /\ pc' = "except" /\ db' = db
    /\ UNCHANGED <<last, committed, cmd, commits, rollbacks, closed, snap>>

\* Nothing asked for: sys.exit(2).  Else commit when a connection or a
\* permission was modified, and sys.exit(0).
Finish ==
    /\ pc = "finish"
    /\ IF cmd.parent = None /\ cmd.conn = "none" /\ cmd.perm = "none"
       THEN exc' = "SystemExit2" /\ UNCHANGED <<committed, commits>>
       ELSE /\ exc' = "SystemExit0"
            /\ IF cmd.conn # "none" \/ cmd.perm # "none"
               THEN Commit
               ELSE UNCHANGED <<committed, commits>>
    /\ pc' = "exit"
    /\ UNCHANGED <<db, last, cmd, rollbacks, closed, snap>>

\* except ValueError: print, sys.exit(1).
\* except Exception: guacdb.conn.rollback(), print, sys.exit(1).
HandleException ==
    /\ pc = "except"
    /\ IF exc = "ValueError"
       THEN UNCHANGED <<db, rollbacks>>
       ELSE db' = committed /\ rollbacks' = rollbacks + 1
    /\ exc' = "SystemExit1"
    /\ pc' = "exit"
    /\ UNCHANGED <<last, committed, cmd, commits, closed, snap>>

\* GuacamoleDB.__exit__: commit when no exception or SystemExit is in flight,
\* else rollback; close the connection.
GuacamoleDBExit ==
    /\ pc = "exit"
    /\ IF exc \in {"none", "SystemExit0", "SystemExit1", "SystemExit2"}
       THEN Commit /\ UNCHANGED <<db, rollbacks>>
       ELSE db' = committed /\ rollbacks' = rollbacks + 1
            /\ UNCHANGED <<committed, commits>>
    /\ closed' = TRUE
    /\ pc' = "done"
    /\ UNCHANGED <<last, cmd, exc, snap>>

\* BaseGuacamoleRepository.__exit__: commit when no exception is in flight,
\* else rollback; close the connection.
BaseGuacamoleRepositoryExit ==
    /\ pc = "exit"
    /\ IF exc = "none"
       THEN Commit /\ UNCHANGED <<db, rollbacks>>
       ELSE db' = committed /\ rollbacks' = rollbacks + 1
            /\ UNCHANGED <<committed, commits>>
    /\ closed' = TRUE
    /\ pc' = "done"
    /\ UNCHANGED <<last, cmd, exc, snap>>

\* The process ends; the next invocation starts from the committed store.
ProcessExit ==
    /\ pc = "done"
    /\ pc' = "idle"
    /\ cmd' = << >>
    /\ exc' = "none"
    /\ db' = committed
    /\ snap' = committed
    /\ commits' = 0
    /\ rollbacks' = 0
    /\ closed' = FALSE
    /\ UNCHANGED <<committed, last>>

NextTxn ==
    \/ Begin
    \/ Resolve
    \/ ParentStep
    \/ ConnStep
    \/ PermStep
    \/ Finish
    \/ HandleException
    \/ GuacamoleDBExit
    \/ BaseGuacamoleRepositoryExit
    \/ ProcessExit

SpecTxn == InitTxn /\ [][NextTxn]_vars

\* The command has ended with an error: a step raised, or the handler gave up.
Failed == pc = "done" /\ exc # "SystemExit0"

\* C3: when a step of a command raises, nothing the command did is committed:
\* the committed store is the one the command started from.
C3_ErrorRollsBackAll == Failed => committed = snap

\* C4: no commit is issued while steps of the command remain; commits come
\* from the end of the handler and from the session's __exit__ only.
C4_NoCommitBeforeEnd ==
    [][commits' > commits => pc \in {"finish", "exit"}]_vars

\* C5: a command that has ended was resolved by commit alone when it
\* succeeded and by rollback alone when it raised, and its session is closed.
C5_CommitXorRollback ==
    pc = "done" =>
        /\ closed
        /\ IF exc = "SystemExit0"
           THEN commits >= 1 /\ rollbacks = 0
           ELSE rollbacks >= 1 /\ commits = 0

\* ================================================ groups holding connections
\* One engine call per step on a store of connection groups and connections.
\* snap is the store the call was made on, last the call and its result.
\* last.name and last.id are the selector of the entity the call is about,
\* last.parent the parent argument.
PlaceCall(op, name, id, parent, r) ==
    /\ Call(op, name, id, parent, r)
    /\ snap' = db
    /\ UNCHANGED <<committed, pc, cmd, exc, commits, rollbacks, closed>>

InitPlace ==
    /\ db = EmptyStore
    /\ last = NoCall
    /\ TxIdle

PlaceCreateConnectionGroup ==
    \E n \in CreateNames(db), p \in ParentNames :
        /\ db.cgSeq <= MaxLedgerId
        /\ PlaceCall("create_conngroup", n, None, p,
                     create_connection_group(db, n, p))

\* parent_group_id is whatever id the caller holds.
PlaceCreateConnection ==
    \E c \in ConnNames, p \in (1..MaxLedgerId) \cup {None} :
        /\ db.connSeq <= MaxLedgerId
        /\ PlaceCall("create_connection", c, None, p, create_connection(db, c, p))

GoodConnSelectors == {<<c, None>> : c \in ConnNames}
                     \cup {<<None, i>> : i \in 1..MaxLedgerId}
ConnSelectors == GoodConnSelectors \cup BadSelectors
\* The malformed selectors are tried with one group argument only.
MoveArgs == (GoodConnSelectors \X ParentNames) \cup (BadSelectors \X {None})

PlaceModifyConnectionParentGroup ==
    \E a \in MoveArgs :
        PlaceCall("move_connection", a[1][1], a[1][2], a[2],
                  modify_connection_parent_group(db, a[1][1], a[1][2], a[2]))

PlaceDeleteConnectionGroup ==
    \E sel \in Selectors :
        PlaceCall("delete_conngroup", sel[1], sel[2], None,
                  delete_connection_group(db, sel[1], sel[2]))

PlaceRepositoryDeleteConnectionGroup ==
    \E sel \in Selectors :
        PlaceCall("repository_delete_conngroup", sel[1], sel[2], None,
                  ConnectionGroupRepository_delete_connection_group(db, sel[1], sel[2]))

PlaceDeleteConnection ==
    \E sel \in ConnSelectors :
        PlaceCall("delete_connection", sel[1], sel[2], None,
                  delete_connection(db, sel[1], sel[2]))

\* Every pair of a name argument and an id argument a caller can pass.
ResolveSelectors ==
    (ConnGroupNames \cup {None, EmptyStr}) \X ((1..MaxLedgerId) \cup {None, 0, -2})

\* A resolver call: last.parent counts the queries it sent to the store.
ResolveCall(op, sel, r) ==
    PlaceCall(op, sel[1], sel[2], r.lookups, Ret(db, r.res))

PlaceResolveConngroup ==
    \E sel \in ResolveSelectors :
        ResolveCall("resolve_conngroup", sel,
                    resolve_conngroup_id(db, sel[1], sel[2]))

PlaceRepositoryResolveConngroup ==
    \E sel \in ResolveSelectors :
        ResolveCall("repository_resolve_conngroup", sel,
                    ConnectionGroupRepository_resolve_conngroup_id(db, sel[1], sel[2]))

PlaceResolveConnection ==
    \E sel \in ResolveSelectors :
        ResolveCall("resolve_connection", sel,
                    resolve_connection_id(db, sel[1], sel[2]))

PlaceResolveUsergroup ==
    \E sel \in ResolveSelectors :
        ResolveCall("resolve_usergroup", sel,
                    resolve_usergroup_id(db, sel[1], sel[2]))

PlaceConnectionGroupExists ==
    \E sel \in ResolveSelectors :
        PlaceCall("conngroup_exists", sel[1], sel[2], None,
                  Ret(db, connection_group_exists(db, sel[1], sel[2])))

PlaceConnectionExists ==
    \E sel \in ResolveSelectors :
        PlaceCall("connection_exists", sel[1], sel[2], None,
                  Ret(db, connection_exists(db, sel[1], sel[2])))

PlaceRepositoryConnectionGroupExists ==
    \E sel \in ResolveSelectors :
        PlaceCall("repository_conngroup_exists", sel[1], sel[2], None,
                  Ret(db, ConnectionGroupRepository_connection_group_exists(
                              db, sel[1], sel[2])))

NextPlace ==
    \/ PlaceCreateConnectionGroup
    \/ PlaceCreateConnection
    \/ PlaceModifyConnectionParentGroup
    \/ PlaceDeleteConnectionGroup
    \/ PlaceRepositoryDeleteConnectionGroup
    \/ PlaceDeleteConnection
    \/ PlaceResolveConngroup
    \/ PlaceRepositoryResolveConngroup
    \/ PlaceResolveConnection
    \/ PlaceResolveUsergroup
    \/ PlaceConnectionGroupExists
    \/ PlaceConnectionExists
    \/ PlaceRepositoryConnectionGroupExists

SpecPlace == InitPlace /\ [][NextPlace]_vars

\* ------------------------------------------------------- orphan promotion
GroupDeleteOps == {"delete_conngroup", "repository_delete_conngroup"}

\* The children of group g in store s: groups, connections.
ChildGroups(s, g) == {i \in DOMAIN s.cg : s.cg[i].parent = g}

ChildConnections(s, g) == {c \in DOMAIN s.conn : s.conn[c].parent = g}

\* C11: a successful delete of connection group G removes the row of G only:
\* every group and every connection whose parent was G is still in the store
\* and its parent is null.
C11_ChildrenPromoted ==
    (last.op \in GroupDeleteOps /\ last.res = "ok") =>
        LET g == CalledGroup(snap, last)
        IN  /\ g \in DOMAIN snap.cg
            /\ DOMAIN db.cg = DOMAIN snap.cg \ {g}
            /\ DOMAIN db.conn = DOMAIN snap.conn
            /\ \A i \in ChildGroups(snap, g) : db.cg[i].parent = None
            /\ \A c \in ChildConnections(snap, g) : db.conn[c].parent = None

\* The deleted group had a child group and a child connection.
C11_Witness ==
    /\ last.op \in GroupDeleteOps /\ last.res = "ok"
    /\ ChildGroups(snap, CalledGroup(snap, last)) # {}
    /\ ChildConnections(snap, CalledGroup(snap, last)) # {}
    /\ ChildGroups(snap, CalledGroup(snap, last)) \subseteq DOMAIN db.cg
    /\ ChildConnections(snap, CalledGroup(snap, last)) \subseteq DOMAIN db.conn

\* ------------------------------------------------------- parent references
\* C12: after any sequence of operations every connection and every
\* connection group whose parent is set has a parent that is a connection
\* group in the store.
C12_ParentsExist ==
    /\ \A i \in DOMAIN db.cg :
           db.cg[i].parent # None => db.cg[i].parent \in DOMAIN db.cg
    /\ \A c \in DOMAIN db.conn :
           db.conn[c].parent # None => db.conn[c].parent \in DOMAIN db.cg

\* ===================================================== the lifecycle manager
\* One engine call per step on a store of principals, resources, memberships
\* and permission edges.  snap is the store the call was made on.  last.name
\* and last.id are the selector of the entity the call is about (for a grant
\* or a membership the user's name), last.parent the other name of the call.
InitCascade ==
    /\ db = EmptyStore
    /\ last = NoCall
    /\ TxIdle

CascadeCreateUser ==
    \E u \in UserNames :
        /\ db.entSeq <= MaxLedgerId
        /\ PlaceCall("create_user", u, None, None, create_user(db, u))

CascadeCreateUsergroup ==
    \E g \in UserGroupNames :
        /\ db.entSeq <= MaxLedgerId
        /\ PlaceCall("create_usergroup", g, None, None, create_usergroup(db, g))

CascadeCreateConnection ==
    \E c \in ConnNames :
        /\ db.connSeq <= MaxLedgerId
        /\ PlaceCall("create_connection", c, None, None,
                     create_connection(db, c, None))

CascadeCreateConnectionGroup ==
    \E g \in LedgerGroupNames :
        /\ db.cgSeq <= MaxLedgerId
        /\ PlaceCall("create_conngroup", g, None, None,
                     create_connection_group(db, g, None))

CascadeAddUserToUsergroup ==
    \E u \in UserNames, g \in UserGroupNames :
        PlaceCall("add_member", u, None, g, add_user_to_usergroup(db, u, g))

CascadeGrantConnectionPermissionToUser ==
    \E u \in UserNames, c \in ConnNames :
        PlaceCall("grant_conn", u, None, c,
                  grant_connection_permission_to_user(db, u, c))

CascadeGrantConnectionGroupPermissionToUser ==
    \E u \in UserNames, g \in LedgerGroupNames :
        PlaceCall("grant_conngroup", u, None, g,
                  grant_connection_group_permission_to_user(db, u, g))

CascadeDeleteUser ==
    \E u \in UserNames :
        PlaceCall("delete_user", u, None, None, delete_user(db, u))

CascadeRepositoryDeleteUser ==
    \E u \in UserNames :
        PlaceCall("repository_delete_user", u, None, None,
                  UserRepository_delete_existing_user(db, u))

\* A grant to the user group as principal.
CascadeGrantConnectionPermission ==
    \E g \in UserGroupNames, i \in DOMAIN db.conn :
        PlaceCall("grant_generic_group", g, i, None,
                  grant_connection_permission(db, g, "USER_GROUP", i, None))

CascadeDeleteUsergroup ==
    \E g \in UserGroupNames :
        PlaceCall("delete_usergroup", g, None, None, delete_usergroup(db, g))

CascadeRepositoryDeleteUsergroup ==
    \E g \in UserGroupNames :
        PlaceCall("repository_delete_usergroup", g, None, None,
                  UserGroupRepository_delete_existing_usergroup(db, g))

\* The ids a caller can pass: an id, None, and an id that is not positive.
UsergroupIds == (1..MaxLedgerId) \cup {None, 0}

CascadeDeleteUsergroupById ==
    \E i \in UsergroupIds :
        PlaceCall("delete_usergroup_by_id", None, i, None,
                  delete_existing_usergroup_by_id(db, i))

CascadeRepositoryDeleteUsergroupById ==
    \E i \in UsergroupIds :
        PlaceCall("repository_delete_usergroup_by_id", None, i, None,
                  UserGroupRepository_delete_existing_usergroup_by_id(db, i))

\* The gateway that shares the store records a use of a connection.
CascadeGatewayHistory ==
    \E c \in DOMAIN db.conn :
        /\ c \notin db.chist
        /\ PlaceCall("gateway_history", None, c, None,
                     Ret([db EXCEPT !.chist = db.chist \cup {c}], "ok"))

CascadeDeleteConnection ==
    \E sel \in ConnSelectors :
        PlaceCall("delete_connection", sel[1], sel[2], None,
                  delete_connection(db, sel[1], sel[2]))

CascadeGcManagerDeleteConnection ==
    \E c \in ConnNames :
        PlaceCall("gc_manager_delete_connection", c, None, None,
                  gc_manager_delete_existing_connection(db, c))

CascadeGcmylibDeleteConnection ==
    \E c \in ConnNames :
        PlaceCall("gcmylib_delete_connection", c, None, None,
                  gcmylib_delete_existing_connection(db, c))

CascadeDeleteConnectionGroup ==
    \E sel \in {<<g, None>> : g \in LedgerGroupNames}
                \cup {<<None, i>> : i \in 1..MaxLedgerId} :
        PlaceCall("delete_conngroup", sel[1], sel[2], None,
                  delete_connection_group(db, sel[1], sel[2]))

\* The gateway that shares the store gives a user a row of another level on
\* a connection group.
CascadeGatewayPermission ==
    \E e \in db.usr, g \in DOMAIN db.cg :
        /\ EdgesOn(db.cgperm, e, g) = {}
        /\ PlaceCall("gateway_permission", None, g, None,
                     Ret([db EXCEPT !.cgperm = db.cgperm \cup
                                       {<<e, g, "ADMINISTER">>}], "ok"))

CascadeRepositoryGrantConnectionGroupPermissionToUser ==
    \E u \in UserNames, g \in LedgerGroupNames :
        PlaceCall("repository_grant_conngroup", u, None, g,
                  ConnectionGroupRepository_grant_connection_group_permission_to_user(
                      db, u, g))

NextCascade ==
    \/ CascadeCreateUser
    \/ CascadeCreateUsergroup
    \/ CascadeCreateConnection
    \/ CascadeCreateConnectionGroup
    \/ CascadeAddUserToUsergroup
    \/ CascadeGrantConnectionPermissionToUser
    \/ CascadeGrantConnectionGroupPermissionToUser
    \/ CascadeDeleteUser
    \/ CascadeRepositoryDeleteUser
    \/ CascadeGrantConnectionPermission
    \/ CascadeDeleteUsergroup
    \/ CascadeRepositoryDeleteUsergroup
    \/ CascadeDeleteUsergroupById
    \/ CascadeRepositoryDeleteUsergroupById
    \/ CascadeGatewayHistory
    \/ CascadeDeleteConnection
    \/ CascadeGcManagerDeleteConnection
    \/ CascadeGcmylibDeleteConnection
    \/ CascadeDeleteConnectionGroup
    \/ CascadeGatewayPermission
    \/ CascadeRepositoryGrantConnectionGroupPermissionToUser

SpecCascade == InitCascade /\ [][NextCascade]_vars

\* ------------------------------------------------------------- user delete
UserDeleteOps == {"delete_user", "repository_delete_user"}

\* Entity e is the principal of no permission edge of store s.
NoEdgeOfPrincipal(s, e) ==
    /\ \A x \in s.cperm : x[1] # e
    /\ \A x \in s.cgperm : x[1] # e
    /\ \A x \in BagToSet(s.ugperm) : x[1] # e

\* C13: after a successful delete of a user no membership row and no
\* permission edge on a connection, a connection group or a user group has
\* the user's surrogate id, and the user row and its entity row are gone.
C13_UserCascadeComplete ==
    (last.op \in UserDeleteOps /\ last.res = "ok") =>
        LET e == EntId(snap, last.name, "USER")
        IN  /\ e \notin DOMAIN db.ent
            /\ e \notin db.usr
            /\ \A x \in db.mem : x[2] # e
            /\ NoEdgeOfPrincipal(db, e)

\* -------------------------------------------------------- user group delete
UsergroupDeleteOps == {"delete_usergroup", "repository_delete_usergroup",
                       "delete_usergroup_by_id",
                       "repository_delete_usergroup_by_id"}

\* The user group a delete call names, looked up in store s.
CalledUsergroup(s, c) == IF c.id # None THEN c.id ELSE UgIdByName(s, c.name)

\* C14: after a successful delete of a user group, selected by name or by
\* id, no membership row of the group and no permission edge with the group
\* as principal remains, and the group row and its entity row are gone.
C14_UsergroupCascadeComplete ==
    (/\ last.op \in UsergroupDeleteOps /\ last.res = "ok"
     /\ CalledUsergroup(snap, last) \in DOMAIN snap.ug) =>
        LET g == CalledUsergroup(snap, last)
            e == snap.ug[g]
        IN  /\ g \notin DOMAIN db.ug
            /\ e \notin DOMAIN db.ent
            /\ \A x \in db.mem : x[1] # g
            /\ NoEdgeOfPrincipal(db, e)

\* -------------------------------------------------------- connection delete
ConnectionDeleteOps == {"delete_connection", "gc_manager_delete_connection",
                        "gcmylib_delete_connection"}

\* The connection a delete call names, looked up in store s.
CalledConnection(s, c) == IF c.id # None THEN c.id ELSE ConnIdByName(s, c.name)

\* C15: after a successful delete of a connection no parameter row, no
\* permission edge and no history record holds the connection's id, and the
\* connection row is gone.
C15_ConnectionCascadeComplete ==
    (/\ last.op \in ConnectionDeleteOps /\ last.res = "ok"
     /\ CalledConnection(snap, last) \in DOMAIN snap.conn) =>
        LET c == CalledConnection(snap, last)
        IN  /\ c \notin DOMAIN db.conn
            /\ \A x \in db.cparam : x[1] # c
            /\ \A x \in db.cperm : x[2] # c
            /\ c \notin db.chist

\* ------------------------------------------------- delete of a missing entity
\* Call c is a delete, by a well-formed selector, of an entity store s does
\* not hold.
DeletesMissing(s, c) ==
    /\ OneSelector(c)
    /\ c.id # None => c.id > 0
    /\ \/ c.op \in UserDeleteOps /\ EntId(s, c.name, "USER") = None
       \/ /\ c.op \in UsergroupDeleteOps
          /\ CalledUsergroup(s, c) \notin DOMAIN s.ug
          /\ c.name # None => EntId(s, c.name, "USER_GROUP") = None
       \/ c.op \in ConnectionDeleteOps /\ CalledConnection(s, c) \notin DOMAIN s.conn
       \/ c.op = "delete_conngroup" /\ CalledGroup(s, c) \notin DOMAIN s.cg

\* C16: a delete of a user, a user group, a connection or a connection group
\* that is not in the store raises the not-found error and leaves the store
\* as it was; it never returns success.
C16_DeleteMissingNotFound ==
    DeletesMissing(snap, last) => last.res = "not_found" /\ db = snap

\* ------------------------------------------------------------ the resolver
ResolveOps == {"resolve_conngroup", "repository_resolve_conngroup",
               "resolve_connection", "resolve_usergroup"}

\* Call c passes both a name and an id, or neither.
BothOrNeither(c) == (c.name = None) = (c.id = None)

\* C17: a resolver of any entity kind called with both a name and an id, or
\* with neither, raises the validation error whatever the two values are, and
\* has sent no query to the store.
C17_BothOrNeitherInvalid ==
    (last.op \in ResolveOps /\ BothOrNeither(last)) =>
        last.res = "validation" /\ last.parent = 0

\* Both selectors were passed, the name empty and the id that of a row in
\* the store.
C17_Witness ==
    /\ last.op \in ResolveOps /\ last.res = "validation"
    /\ last.name = EmptyStr
    /\ \/ last.op \in {"resolve_conngroup", "repository_resolve_conngroup"}
          /\ last.id \in DOMAIN db.cg
       \/ last.op = "resolve_connection" /\ last.id \in DOMAIN db.conn

\* ------------------------------------------------------ exists and resolve
ExistsOps == {"conngroup_exists", "connection_exists",
              "repository_conngroup_exists"}

\* The outcome of the resolver that belongs to exists call c, on store s.
ResolverOutcome(s, c) ==
    IF c.op = "conngroup_exists" THEN resolve_conngroup_id(s, c.name, c.id).res
    ELSE IF c.op = "connection_exists"
    THEN resolve_connection_id(s, c.name, c.id).res
    ELSE ConnectionGroupRepository_resolve_conngroup_id(s, c.name, c.id).res

\* C20: on every selector exists returns true where resolve returns an id,
\* false where resolve raises not-found, and raises where resolve raises any
\* other error.
C20_ExistsAgreesWithResolve ==
    last.op \in ExistsOps =>
        /\ ResolverOutcome(snap, last) = "ok" => last.res = "true"
        /\ ResolverOutcome(snap, last) = "not_found" => last.res = "false"
        /\ ResolverOutcome(snap, last) = "validation" => last.res = "validation"

\* ------------------------------------------------- membership and READ edge
AddMemberOps == {"add_member", "gcmylib_add_member"}

\* The READ row of the user and the user group that call c names, in store s.
CalledReadEdge(s, c) ==
    <<EntId(s, c.name, "USER"), UgIdByName(s, c.parent), "READ">>

CalledMembership(s, c) == <<UgIdByName(s, c.parent), EntId(s, c.name, "USER")>>

\* C18: however often a user is added to a user group, the permission table
\* never holds two READ rows of that user on that group.
C18_SingleReadEdge ==
    \A x \in BagToSet(db.ugperm) : x[3] = "READ" => CopiesIn(x, db.ugperm) = 1

\* The user has just been added to the group a second time: the call was
\* refused and the one READ row is there.
C18_Witness ==
    /\ last.op \in AddMemberOps /\ last.res = "store_error"
    /\ CalledMembership(db, last) \in db.mem
    /\ CopiesIn(CalledReadEdge(db, last), db.ugperm) = 1

\* C19: when an add of a user to a user group succeeds, the store holds the
\* membership row of the pair and a READ row of the user on the group.
C19_MemberHasReadEdge ==
    (last.op \in AddMemberOps /\ last.res = "ok") =>
        /\ CalledMembership(db, last) \in db.mem
        /\ BagIn(CalledReadEdge(db, last), db.ugperm)

\* A user has just been added to a user group.
C19_Witness ==
    /\ last.op \in AddMemberOps /\ last.res = "ok"
    /\ CalledMembership(db, last) \in db.mem
    /\ BagIn(CalledReadEdge(db, last), db.ugperm)

\* ------------------------------------------------------- promotion to root
\* Call c reparents a group of store s, giving an empty or absent new parent.
PromotesToRoot(s, c) ==
    /\ IsReparent(c) /\ OneSelector(c)
    /\ CalledGroup(s, c) \in DOMAIN s.cg
    /\ ~Truthy(c.parent)

\* C21 as stated: a reparent of an existing connection group with an empty
\* or absent new parent always succeeds and leaves the group with parent null.
C21_PromoteAlwaysSucceeds ==
    [][PromotesToRoot(db, last') =>
           /\ last'.res = "ok"
           /\ db'.cg[CalledGroup(db, last')].parent = None]_vars

\* C21 amended: such a reparent succeeds and leaves the group with parent
\* null when the group has a parent; on a group that is a root already it
\* raises an error and changes nothing.
C21_PromoteAttachedSucceeds ==
    [][PromotesToRoot(db, last') =>
           IF db.cg[CalledGroup(db, last')].parent # None
           THEN /\ last'.res = "ok"
                /\ db'.cg[CalledGroup(db, last')].parent = None
           ELSE last'.res = "not_changed" /\ db' = db]_vars

\* A group under a parent has just been promoted with the empty name.
C21_Witness ==
    /\ IsReparent(last) /\ last.parent = EmptyStr /\ last.res = "ok"
    /\ CalledGroup(db, last) \in DOMAIN db.cg
    /\ db.cg[CalledGroup(db, last)].parent = None

\* ------------------------------------------------------------ no-op reparent
\* Call c reparents a group of store s under the parent it already has.
SameParent(s, c) ==
    /\ IsReparent(c) /\ OneSelector(c)
    /\ CalledGroup(s, c) \in DOMAIN s.cg
    /\ Truthy(c.parent) => CalledParent(s, c) # None
    /\ CalledParent(s, c) = s.cg[CalledGroup(s, c)].parent

\* C22: a reparent whose new parent is the group's current parent, the
\* promotion of a root to root included, raises an error and changes nothing.
C22_NoOpRejected ==
    [][SameParent(db, last') => last'.res = "not_changed" /\ db' = db]_vars

\* A group has just been reparented under the group that is its parent.
C22_Witness ==
    /\ SameParent(db, last)
    /\ Truthy(last.parent)
    /\ last.res = "not_changed"

\* ------------------------------------------------- grant over another level
ConnGroupGrantOps == {"grant_conngroup", "repository_grant_conngroup"}

\* The rows of store s on the user and connection group that call c names.
CalledGroupEdges(s, c) ==
    EdgesOn(s.cgperm, EntId(s, c.name, "USER"), CgIdByName(s, c.parent))

CalledGroupReadEdge(s, c) ==
    <<EntId(s, c.name, "USER"), CgIdByName(s, c.parent), "READ">>

\* C23: a grant on a pair whose row has another level than the requested one
\* succeeds and leaves the requested level as the one row of the pair; only
\* a row of the requested level raises the permission-exists error.
C23_GrantUpgradesLevel ==
    (/\ last.op \in ConnGroupGrantOps
     /\ CalledGroupEdges(snap, last) # {}) =>
        IF CalledGroupReadEdge(snap, last) \in CalledGroupEdges(snap, last)
        THEN last.res = "exists"
        ELSE /\ last.res = "ok"
             /\ CalledGroupEdges(db, last) = {CalledGroupReadEdge(snap, last)}

\* ------------------------------------------- revokes of two invocations
\* Two invocations share the store. Each statement of a revoke is one step;
\* the other invocation's statements fall between them.
Invocations == {"first", "second"}

\* ConnectionGroupRepository.revoke_connection_group_permission_from_user,
\* run on one store without another invocation in between.
ConnectionGroupRepository_revoke_connection_group_permission_from_user(s, username, conngroup_name) ==
    LET connection_group_id == CgIdByName(s, conngroup_name)
        entity_id == EntId(s, username, "USER")
        existing == EdgesOn(s.cgperm, entity_id, connection_group_id)
    IN  IF ~Truthy(username) \/ ~Truthy(conngroup_name) THEN Ret(s, "validation")
        ELSE IF connection_group_id = None THEN Ret(s, "not_found")
        ELSE IF entity_id = None THEN Ret(s, "not_found")
        ELSE IF existing = {} THEN Ret(s, "no_permission")
        ELSE Ret([s EXCEPT !.cgperm = s.cgperm \ existing], "ok")

RevokeOfOp(s, op, username, target) ==
    CASE op = "revoke_conn" ->
             revoke_connection_permission_from_user(s, username, target)
      [] op = "revoke_conngroup" ->
             revoke_connection_group_permission_from_user(s, username, target)
      [] op = "repository_revoke_conngroup" ->
             ConnectionGroupRepository_revoke_connection_group_permission_from_user(
                 s, username, target)

RaceRevokeOps == {"revoke_conn", "revoke_conngroup", "repository_revoke_conngroup"}

\* The rows a revoke's DELETE statement matches in store s.
RevokeMatches(s, c) ==
    IF c.op = "revoke_conn"
    THEN EdgesOn(s.cperm, c.entity_id, c.id)
    ELSE EdgesOn(s.cgperm, c.entity_id, c.id)

\* DELETE ... LIMIT 1 removes one of the matching rows.
LimitOne(rows) == IF rows = {} THEN {{}} ELSE {{x} : x \in rows}

\* What the DELETE of call c removes: every matching row, or one with LIMIT 1.
RevokeRemovals(s, c) ==
    IF c.op = "repository_revoke_conngroup"
    THEN LimitOne(RevokeMatches(s, c))
    ELSE {RevokeMatches(s, c)}

\* Only the repository class reads cursor.rowcount after its DELETE.
RevokeDeleteResult(c, rowcount) ==
    IF c.op = "repository_revoke_conngroup" /\ rowcount = 0
    THEN "no_permission"
    ELSE "ok"

RaceCall(op, name, id, parent, r) ==
    /\ Call(op, name, id, parent, r)
    /\ snap' = db
    /\ UNCHANGED <<committed, exc, commits, rollbacks, closed>>

InitRace ==
    /\ db = EmptyStore
    /\ snap = EmptyStore
    /\ committed = EmptyStore
    /\ last = NoCall
    /\ pc = [i \in Invocations |-> "idle"]
    /\ cmd = [i \in Invocations |-> NoCall]
    /\ exc = "none"
    /\ commits = 0
    /\ rollbacks = 0
    /\ closed = FALSE

RaceCreateUser ==
    \E u \in UserNames :
        /\ db.entSeq <= MaxLedgerId
        /\ RaceCall("create_user", u, None, None, create_user(db, u))
        /\ UNCHANGED <<pc, cmd>>

RaceCreateConnection ==
    \E c \in ConnNames :
        /\ db.connSeq <= MaxLedgerId
        /\ RaceCall("create_connection", None, None, c,
                    create_connection(db, c, None))
        /\ UNCHANGED <<pc, cmd>>

RaceCreateConnectionGroup ==
    \E n \in LedgerGroupNames :
        /\ db.cgSeq <= MaxLedgerId
        /\ RaceCall("create_conngroup", None, None, n,
                    create_connection_group(db, n, None))
        /\ UNCHANGED <<pc, cmd>>

RaceGrantConnectionPermissionToUser ==
    \E u \in UserNames, c \in ConnNames :
        /\ RaceCall("grant_conn", u, None, c,
                    grant_connection_permission_to_user(db, u, c))
        /\ UNCHANGED <<pc, cmd>>

RaceGrantConnectionGroupPermissionToUser ==
    \E u \in UserNames, g \in LedgerGroupNames :
        /\ RaceCall("grant_conngroup", u, None, g,
                    grant_connection_group_permission_to_user(db, u, g))
        /\ UNCHANGED <<pc, cmd>>

\* The lookups and the existence check of a revoke. A failed one raises; a
\* passed one leaves the invocation before its DELETE statement.
RaceRevokeCheck ==
    \E i \in Invocations, op \in RaceRevokeOps, u \in UserNames,
       t \in ConnNames \cup LedgerGroupNames :
        /\ pc[i] = "idle"
        /\ t \in (IF op = "revoke_conn" THEN ConnNames ELSE LedgerGroupNames)
        /\ LET r == RevokeOfOp(db, op, u, t)
           IN  IF r.res # "ok"
               THEN /\ RaceCall(op, u, None, t, Ret(db, r.res))
                    /\ UNCHANGED <<pc, cmd>>
               ELSE /\ pc' = [pc EXCEPT ![i] = "checked"]
                    /\ cmd' = [cmd EXCEPT ![i] =
                                 [op |-> op, name |-> u, parent |-> t,
                                  entity_id |-> EntId(db, u, "USER"),
                                  id |-> IF op = "revoke_conn"
                                         THEN ConnIdByName(db, t)
                                         ELSE CgIdByName(db, t)]]
                    /\ UNCHANGED <<db, last, snap, committed, exc, commits,
                                   rollbacks, closed>>

\* The DELETE statement of a revoke and what the revoke reports after it.
RaceRevokeDelete ==
    \E i \in Invocations :
        /\ pc[i] = "checked"
        /\ \E gone \in RevokeRemovals(db, cmd[i]) :
              RaceCall(cmd[i].op, cmd[i].name, None, cmd[i].parent,
                       Ret(IF cmd[i].op = "revoke_conn"
                           THEN [db EXCEPT !.cperm = db.cperm \ gone]
                           ELSE [db EXCEPT !.cgperm = db.cgperm \ gone],
                           RevokeDeleteResult(cmd[i], Cardinality(gone))))
        /\ pc' = [pc EXCEPT ![i] = "idle"]
        /\ cmd' = [cmd EXCEPT ![i] = NoCall]

NextRace ==
    \/ RaceCreateUser
    \/ RaceCreateConnection
    \/ RaceCreateConnectionGroup
    \/ RaceGrantConnectionPermissionToUser
    \/ RaceGrantConnectionGroupPermissionToUser
    \/ RaceRevokeCheck
    \/ RaceRevokeDelete

SpecRace == InitRace /\ [][NextRace]_vars

\* The permission rows that are in store s and not in store t.
EdgesRemoved(s, t) == (s.cperm \ t.cperm) \cup (s.cgperm \ t.cgperm)

\* C24: a revoke reports success only if its DELETE removed exactly one
\* edge; a DELETE that finds the edge already removed by another invocation
\* makes the revoke raise.
C24_SuccessRemovedOneEdge ==
    (last.op \in RaceRevokeOps /\ last.res = "ok") =>
        Cardinality(EdgesRemoved(snap, db)) = 1

\* ------------------------------------------------ deletes, one statement a step
\* The tables the DELETE statements of users_repo.delete_user name, in the
\* order the statements run.
UserDeleteOrder == <<"user_group_permission", "user_group_member",
                     "connection_permission", "user", "entity">>

\* The same for usergroups_repo.delete_usergroup.
UsergroupDeleteOrder == <<"user_group_member", "connection_permission",
                          "user_group", "entity">>

\* One DELETE statement of delete_user. Its subquery reads the entity row of
\* that name in the store the statement runs on.
delete_user_statement(s, username, table) ==
    LET e == EntId(s, username, "USER")
    IN  CASE table = "user_group_permission" ->
                 [s EXCEPT !.ugperm = KeepRows(s.ugperm,
                                        {x \in BagToSet(s.ugperm) : x[1] # e})]
          [] table = "user_group_member" ->
                 [s EXCEPT !.mem = {x \in s.mem : x[2] # e}]
          [] table = "connection_permission" ->
                 [s EXCEPT !.cperm = {x \in s.cperm : x[1] # e}]
          [] table = "user" ->
                 [s EXCEPT !.usr = s.usr \ {e},
                           !.ucol = [k \in {x \in DOMAIN s.ucol : x[1] # e} |->
                                        s.ucol[k]]]
          [] table = "entity" ->
                 [s EXCEPT !.ent = DropRow(s.ent, e)]

\* One DELETE statement of delete_usergroup.
delete_usergroup_statement(s, group_name, table) ==
    LET e == EntId(s, group_name, "USER_GROUP")
        groups == {g \in DOMAIN s.ug : s.ug[g] = e}
    IN  CASE table = "user_group_member" ->
                 [s EXCEPT !.mem = {x \in s.mem : x[1] \notin groups}]
          [] table = "connection_permission" ->
                 [s EXCEPT !.cperm = {x \in s.cperm : x[1] # e}]
          [] table = "user_group" ->
                 [s EXCEPT !.ug = [g \in DOMAIN s.ug \ groups |-> s.ug[g]]]
          [] table = "entity" ->
                 [s EXCEPT !.ent = DropRow(s.ent, e)]

DeleteOrder(op) ==
    IF op = "delete_user" THEN UserDeleteOrder ELSE UsergroupDeleteOrder

DeleteStatement(s, op, name, table) ==
    IF op = "delete_user"
    THEN delete_user_statement(s, name, table)
    ELSE delete_usergroup_statement(s, name, table)

\* cmd is the delete under way, <<operation, name, statements run>>, or << >>.
StepsCall(op, name, id, parent, r) ==
    /\ cmd = << >>
    /\ Call(op, name, id, parent, r)
    /\ UNCHANGED <<snap, committed, pc, cmd, exc, commits, rollbacks, closed>>

InitSteps ==
    /\ db = EmptyStore
    /\ snap = EmptyStore
    /\ committed = EmptyStore
    /\ last = NoCall
    /\ pc = "idle"
    /\ cmd = << >>
    /\ exc = "none"
    /\ commits = 0
    /\ rollbacks = 0
    /\ closed = FALSE

StepsCreateUser ==
    \E u \in UserNames :
        /\ db.entSeq <= MaxLedgerId
        /\ StepsCall("create_user", u, None, None, create_user(db, u))

StepsCreateUsergroup ==
    \E g \in UserGroupNames :
        /\ db.entSeq <= MaxLedgerId
        /\ StepsCall("create_usergroup", g, None, None, create_usergroup(db, g))

StepsCreateConnection ==
    \E c \in ConnNames :
        /\ db.connSeq <= MaxLedgerId
        /\ StepsCall("create_connection", None, None, c,
                     create_connection(db, c, None))

StepsCreateConnectionGroup ==
    \E n \in LedgerGroupNames :
        /\ db.cgSeq <= MaxLedgerId
        /\ StepsCall("create_conngroup", None, None, n,
                     create_connection_group(db, n, None))

StepsAddUserToUsergroup ==
    \E u \in UserNames, g \in UserGroupNames :
        StepsCall("add_member", u, None, g, add_user_to_usergroup(db, u, g))

StepsGrantConnectionPermissionToUser ==
    \E u \in UserNames, c \in ConnNames :
        StepsCall("grant_conn", u, None, c,
                  grant_connection_permission_to_user(db, u, c))

StepsGrantConnectionPermission ==
    \E g \in UserGroupNames, i \in 1..MaxLedgerId :
        StepsCall("grant_generic_group", g, i, None,
                  grant_connection_permission(db, g, "USER_GROUP", i, None))

StepsGrantConnectionGroupPermissionToUser ==
    \E u \in UserNames, g \in LedgerGroupNames :
        StepsCall("grant_conngroup", u, None, g,
                  grant_connection_group_permission_to_user(db, u, g))

\* user_exists / usergroup_exists: a missing name raises, a present one
\* leaves the delete before its first statement.
StepsDeleteBegin ==
    \E op \in {"delete_user", "delete_usergroup"},
       n \in UserNames \cup UserGroupNames :
        /\ cmd = << >>
        /\ n \in (IF op = "delete_user" THEN UserNames ELSE UserGroupNames)
        /\ IF EntId(db, n, IF op = "delete_user" THEN "USER" ELSE "USER_GROUP")
              = None
           THEN /\ Call(op, n, None, None, Ret(db, "not_found"))
                /\ UNCHANGED <<snap, cmd>>
           ELSE /\ cmd' = <<op, n, 0>>
                /\ snap' = db
                /\ UNCHANGED <<db, last>>
        /\ UNCHANGED <<committed, pc, exc, commits, rollbacks, closed>>

\* The next DELETE statement of the delete under way; the last one returns.
StepsDeleteStatement ==
    /\ cmd # << >>
    /\ LET op == cmd[1]
           n == cmd[2]
           k == cmd[3] + 1
           s == DeleteStatement(db, op, n, DeleteOrder(op)[k])
       IN  IF k = Len(DeleteOrder(op))
           THEN /\ Call(op, n, None, None, Ret(s, "ok"))
                /\ cmd' = << >>
           ELSE /\ db' = s
                /\ cmd' = <<op, n, k>>
                /\ UNCHANGED last
    /\ UNCHANGED <<snap, committed, pc, exc, commits, rollbacks, closed>>

NextSteps ==
    \/ StepsCreateUser
    \/ StepsCreateUsergroup
    \/ StepsCreateConnection
    \/ StepsCreateConnectionGroup
    \/ StepsAddUserToUsergroup
    \/ StepsGrantConnectionPermissionToUser
    \/ StepsGrantConnectionPermission
    \/ StepsGrantConnectionGroupPermissionToUser
    \/ StepsDeleteBegin
    \/ StepsDeleteStatement

SpecSteps == InitSteps /\ [][NextSteps]_vars

\* The rows of the user with entity e in one of the tables delete_user names.
UserRowsIn(s, e, table) ==
    CASE table = "user_group_permission" -> {x \in BagToSet(s.ugperm) : x[1] = e}
      [] table = "user_group_member" -> {x \in s.mem : x[2] = e}
      [] table = "connection_permission" -> {x \in s.cperm : x[1] = e}
      [] table = "user" -> s.usr \cap {e}
      [] table = "entity" -> DOMAIN s.ent \cap {e}

\* The user delete under way has emptied the tables of its order so far and
\* has left the later ones as they were when it began.
UserDeleteInOrder ==
    (cmd # << >> /\ cmd[1] = "delete_user") =>
        LET e == EntId(snap, cmd[2], "USER")
        IN  \A j \in 1..Len(UserDeleteOrder) :
                UserRowsIn(db, e, UserDeleteOrder[j]) =
                    IF j <= cmd[3] THEN {}
                    ELSE UserRowsIn(snap, e, UserDeleteOrder[j])

\* The entity rows and user-group rows the delete under way has removed.
GoneEntities == DOMAIN snap.ent \ DOMAIN db.ent
GoneUsergroups == DOMAIN snap.ug \ DOMAIN db.ug

\* The rows of store s that reference entity e or user group g.
RowsReferencing(s, gone_entities, gone_usergroups) ==
    [ usr    |-> s.usr \cap gone_entities,
      ug     |-> {g \in DOMAIN s.ug : s.ug[g] \in gone_entities},
      mem    |-> {x \in s.mem : x[1] \in gone_usergroups \/ x[2] \in gone_entities},
      cperm  |-> {x \in s.cperm : x[1] \in gone_entities},
      cgperm |-> {x \in s.cgperm : x[1] \in gone_entities},
      ugperm |-> {x \in BagToSet(s.ugperm) :
                     x[1] \in gone_entities \/ x[2] \in gone_usergroups} ]

NoRows == [usr |-> {}, ug |-> {}, mem |-> {}, cperm |-> {}, cgperm |-> {},
           ugperm |-> {}]

\* C25: a delete runs its cascade before it removes the entity's own row; a
\* user delete empties user-group permissions, memberships, connection
\* permissions, the user row and the entity row in that order; between the
\* statements of a delete no remaining row references a row the delete has
\* already removed.
C25_CascadeBeforeOwnRow ==
    /\ UserDeleteInOrder
    /\ cmd # << >> => RowsReferencing(db, GoneEntities, GoneUsergroups) = NoRows

\* ------------------------------------------- the cycle walk, one lookup a step
\* A lookup that leaves the loop variable where it is.
NextParent_stay(cg, current_parent) == current_parent

\* SELECT parent_id ... WHERE connection_group_id = current_parent;
\* current_parent = result[0] if result else None
NextParent(cg, current_parent) ==
    IF current_parent \in DOMAIN cg THEN cg[current_parent].parent ELSE None

\* cmd is the walk under way: the two arguments, the loop variable and the
\* number of lookups made so far.
InitWalk ==
    /\ db = EmptyStore
    /\ snap = EmptyStore
    /\ committed = EmptyStore
    /\ last = NoCall
    /\ pc = "idle"
    /\ cmd = << >>
    /\ exc = "none"
    /\ commits = 0
    /\ rollbacks = 0
    /\ closed = FALSE

WalkCreateConnectionGroup == pc = "idle" /\ CreateConnectionGroup

WalkModifyConnectionGroupParent == pc = "idle" /\ ModifyConnectionGroupParent

WalkDeleteConnectionGroup == pc = "idle" /\ DeleteConnectionGroup

\* The walk returns: last.name holds the lookups it made.
WalkReturn(group_id, parent_id, steps, result) ==
    /\ last' = [op |-> "check_cycle", name |-> steps, id |-> group_id,
                parent |-> parent_id, res |-> result]
    /\ pc' = "idle"
    /\ cmd' = << >>

\* check_connection_group_cycle(cursor, group_id, parent_id) is entered; the
\* callers pass the group being placed, or None, and a parent they looked up.
WalkBegin ==
    \E group_id \in DOMAIN db.cg \cup {None},
       parent_id \in DOMAIN db.cg \cup {None} :
        /\ pc = "idle"
        /\ IF parent_id = None
           THEN WalkReturn(group_id, parent_id, 0, "nocycle")
           ELSE /\ pc' = "walking"
                /\ cmd' = [group_id |-> group_id, parent_id |-> parent_id,
                           current_parent |-> parent_id, steps |-> 0]
                /\ UNCHANGED last
        /\ UNCHANGED <<db, snap, committed, exc, commits, rollbacks, closed>>

\* One test of the while condition and the iteration it admits.
WalkStep ==
    /\ pc = "walking"
    /\ IF cmd.current_parent = None
       THEN WalkReturn(cmd.group_id, cmd.parent_id, cmd.steps, "nocycle")
       ELSE IF cmd.current_parent = cmd.group_id
       THEN WalkReturn(cmd.group_id, cmd.parent_id, cmd.steps, "cycle")
       ELSE /\ cmd' = [cmd EXCEPT
                         !.current_parent = NextParent(db.cg, cmd.current_parent),
                         !.steps = cmd.steps + 1]
            /\ UNCHANGED <<pc, last>>
    /\ UNCHANGED <<db, snap, committed, exc, commits, rollbacks, closed>>

NextWalk ==
    \/ WalkCreateConnectionGroup
    \/ WalkModifyConnectionGroupParent
    \/ WalkDeleteConnectionGroup
    \/ WalkBegin
    \/ WalkStep

\* The loop runs on once entered.
SpecWalk == InitWalk /\ [][NextWalk]_vars /\ WF_vars(WalkStep)

\* The depth of group i: the groups on the chain from i up to a top-level
\* group, both counted, so that a top-level group has depth 1.
Depth(cg, i) ==
    IF i \in DOMAIN cg THEN Cardinality(Ancestors(cg, i)) + 1 ELSE 0

WalkBounded ==
    /\ pc = "walking" => cmd.steps <= Depth(db.cg, cmd.parent_id)
    /\ last.op = "check_cycle" => last.name <= Depth(db.cg, last.parent)

\* C26: the cycle walk returns on every call, and from the proposed parent
\* it makes at most as many lookups as that parent's depth in the tree.
C26_WalkTerminates ==
    /\ []WalkBounded
    /\ (pc = "walking") ~> (pc = "idle")

\* A walk from a group at depth three has gone up to the top and returned.
C26_Witness ==
    /\ last.op = "check_cycle" /\ last.res = "nocycle"
    /\ last.name = 3
    /\ Depth(db.cg, last.parent) = 3

\* --------------------------------------------------------- parameter changes
\* last.parent is <<param_name, param_value>>, or <<new_password, salt>>.
ParamNames == {"hostname", "read-only", "color-depth", "bogus"}

ParamValues(param_name) ==
    CASE param_name = "read-only" -> {"true", "TRUE", "false", "yes"}
      [] param_name = "color-depth" -> {"8", "16", "7"}
      [] OTHER -> {"created", "host"}

ParamSelectors == {<<n, None>> : n \in ConnNames}
                  \cup {<<None, i>> : i \in 1..MaxLedgerId}
                  \cup {<<None, None>>, <<1, 1>>}

Passwords == {"pw1", "pw2"}
Salts == {"salt1", "salt2", "salt3"}

InitParam ==
    /\ db = EmptyStore
    /\ last = NoCall
    /\ TxIdle

\* create_user names no 'disabled' column in its INSERT: the row gets the
\* table's default, one of the two values of the flag.
ParamCreateUser ==
    \E u \in UserNames, default \in {0, 1} :
        /\ db.entSeq <= MaxLedgerId
        /\ LET r == create_user(db, u)
           IN  PlaceCall("create_user", u, None, None,
                         IF r.res # "ok" THEN r
                         ELSE SetUserColumn(r.db, db.entSeq, "disabled", default))

ParamDeleteUser ==
    \E u \in UserNames :
        PlaceCall("delete_user", u, None, None, delete_user(db, u))

ParamCreateConnection ==
    \E c \in ConnNames :
        /\ db.connSeq <= MaxLedgerId
        /\ PlaceCall("create_connection", None, None, c,
                     create_connection(db, c, None))

ParamDeleteConnection ==
    \E c \in ConnNames :
        PlaceCall("delete_connection", None, None, c,
                  delete_connection(db, c, None))

ParamModifyConnectionParameter ==
    \E sel \in ParamSelectors, n \in ParamNames :
      \E v \in ParamValues(n) :
        PlaceCall("modify_connection_parameter", sel[1], sel[2], <<n, v>>,
                  modify_connection_parameter(db, sel[1], sel[2], n, v))

ParamModifyUserParameter ==
    \E u \in UserNames, n \in {"disabled", "bogus"}, v \in {"0", "1", "2"} :
        PlaceCall("modify_user_parameter", u, None, <<n, v>>,
                  modify_user_parameter(db, u, n, v))

\* os.urandom(32) does not return the salt it returned before.
ParamChangeUserPassword ==
    \E u \in UserNames, pw \in Passwords, salt \in Salts :
        /\ \A k \in DOMAIN db.ucol : k[2] = "password" => db.ucol[k][2] # salt
        /\ PlaceCall("change_user_password", u, None, <<pw, salt>>,
                     change_user_password(db, u, pw, salt))

NextParam ==
    \/ ParamCreateUser
    \/ ParamDeleteUser
    \/ ParamCreateConnection
    \/ ParamDeleteConnection
    \/ ParamModifyConnectionParameter
    \/ ParamModifyUserParameter
    \/ ParamChangeUserPassword

SpecParam == InitParam /\ [][NextParam]_vars

\* The connection a parameter call names, looked up in store s.
ParamConnection(s, c) == IF c.id # None THEN c.id ELSE ConnIdByName(s, c.name)

\* Call c names an allowed parameter, a valid value for it and a connection
\* of store s.
ValidConnectionSet(s, c) ==
    /\ c.op = "modify_connection_parameter"
    /\ OneSelector(c)
    /\ ParamConnection(s, c) \in DOMAIN s.conn
    /\ c.parent[1] \in CONNECTION_PARAMETERS
    /\ c.parent[1] = "read-only" => Lower(c.parent[2]) \in {"true", "false"}
    /\ c.parent[1] = "color-depth" => c.parent[2] \in {"8", "16", "24", "32"}

\* What store s holds for the parameter of call c: the stored values, none
\* for a read-only flag that is cleared.
StoredConnectionValue(s, c) ==
    {x[3] : x \in ParamRows(s, ParamConnection(s, c), c.parent[1])}

RequestedConnectionValue(c) ==
    IF c.parent[1] # "read-only" THEN {c.parent[2]}
    ELSE IF Lower(c.parent[2]) = "true" THEN {"true"}
    ELSE {}

ValidUserSet(s, c) ==
    /\ c.op = "modify_user_parameter"
    /\ EntId(s, c.name, "USER") # None
    /\ c.parent[1] \in USER_PARAMETERS
    /\ c.parent[2] \in {"0", "1"}

ValidPasswordSet(s, c) ==
    /\ c.op = "change_user_password"
    /\ EntId(s, c.name, "USER") # None

UserColumnIs(s, username, column, value) ==
    /\ <<EntId(s, username, "USER"), column>> \in DOMAIN s.ucol
    /\ s.ucol[<<EntId(s, username, "USER"), column>>] = value

\* C30: setting an allowed parameter of an existing connection or user to a
\* valid value succeeds, also when the value is stored already or the flag
\* to clear is not stored, and the store then holds the requested value.
C30_SetAlwaysSucceeds ==
    /\ ValidConnectionSet(snap, last) =>
          /\ last.res = "ok"
          /\ StoredConnectionValue(db, last) = RequestedConnectionValue(last)
    /\ ValidUserSet(snap, last) =>
          /\ last.res = "ok"
          /\ UserColumnIs(db, last.name, last.parent[1], ToInt(last.parent[2]))
    /\ ValidPasswordSet(snap, last) =>
          /\ last.res = "ok"
          /\ UserColumnIs(db, last.name, "password", last.parent)

\* ------------------------------------------------------- refused calls
InitFrame ==
    /\ db = EmptyStore
    /\ last = NoCall
    /\ TxIdle

FrameCreateConnectionGroup ==
    \E n \in CreateNames(db), p \in ParentNames :
        /\ db.cgSeq <= MaxLedgerId
        /\ Call("create_conngroup", n, None, p, create_connection_group(db, n, p))
        /\ UNCHANGED txvars

\* The generic grant with a group_path: the name of a group or none.
FrameGrantConnectionPermission ==
    \E u \in UserNames, i \in 1..MaxLedgerId,
       group_path \in ConnGroupNames \cup {None} :
        /\ Call("grant_generic_user", u, i, group_path,
                grant_connection_permission(db, u, "USER", i, group_path))
        /\ UNCHANGED txvars

FrameModifyConnectionParameter ==
    \E sel \in {<<n, None>> : n \in ConnNames} \cup {<<None, None>>},
       n \in {"read-only", "color-depth", "bogus"} :
      \E v \in ParamValues(n) :
        /\ Call("modify_connection_parameter", sel[1], sel[2], <<n, v>>,
                modify_connection_parameter(db, sel[1], sel[2], n, v))
        /\ UNCHANGED txvars

NextFrame ==
    \/ CreateUser
    \/ CreateUsergroup
    \/ CreateConnection
    \/ FrameCreateConnectionGroup
    \/ FrameGrantConnectionPermission
    \/ ModifyConnectionGroupParent
    \/ AddUserToUsergroup
    \/ RemoveUserFromUsergroup
    \/ FrameModifyConnectionParameter

SpecFrame == InitFrame /\ [][NextFrame]_vars

\* The results that stand for a validation, a not-found or a conflict error.
\* The store's refusal of a row whose key is taken is how a duplicate create
\* and the generic grant's duplicate permission end.
RefusedResults == {"validation", "not_found", "cycle", "not_changed",
                   "invalid_parent", "exists", "no_permission", "not_member",
                   "store_error"}

SameButTree(s, t) == [t EXCEPT !.cg = s.cg, !.conn = s.conn] = s

\* C29: a successful delete of connection group G removes the row of G alone
\* and changes nothing but the parent pointers of G's direct children: every
\* other group and connection, G's grandchildren and G's former parent among
\* them, keeps its row as it was.
C29_DeleteTouchesOnlyChildren ==
    (last.op \in GroupDeleteOps /\ last.res = "ok") =>
        LET g == CalledGroup(snap, last)
        IN  /\ DOMAIN db.cg \subseteq DOMAIN snap.cg
            /\ DOMAIN snap.cg \ DOMAIN db.cg = {g}
            /\ DOMAIN db.conn = DOMAIN snap.conn
            /\ \A i \in DOMAIN db.cg :
                  /\ db.cg[i].name = snap.cg[i].name
                  /\ i \notin ChildGroups(snap, g) => db.cg[i] = snap.cg[i]
            /\ \A c \in DOMAIN db.conn :
                  /\ db.conn[c].name = snap.conn[c].name
                  /\ c \notin ChildConnections(snap, g) => db.conn[c] = snap.conn[c]
            /\ SameButTree(snap, db)

\* The deleted group had a child group that holds a connection, and the
\* connection is still under that child.
C29_Witness ==
    /\ last.op \in GroupDeleteOps /\ last.res = "ok"
    /\ \E i \in ChildGroups(snap, CalledGroup(snap, last)) :
          \E c \in ChildConnections(snap, i) :
              /\ c \in DOMAIN db.conn
              /\ db.conn[c].parent = i

\* ------------------------------------------------------- id and name selectors
\* The last call, made with an id, ended as call r, made with the name of the
\* same entity on the same store.
EndedAs(r) == last.res = r.res /\ db = r.db

\* C28: an operation offered with a name selector and an id selector gives,
\* called with the id of an entity, the outcome and the store it gives called
\* with that entity's name.
C28_IdAsName ==
    /\ (/\ last.op = "delete_usergroup_by_id"
        /\ last.id \in DOMAIN snap.ug
        /\ snap.ug[last.id] \in DOMAIN snap.ent) =>
           EndedAs(delete_usergroup(snap, snap.ent[snap.ug[last.id]].name))
    /\ (/\ last.op = "delete_connection"
        /\ last.name = None
        /\ last.id \in DOMAIN snap.conn) =>
           EndedAs(delete_connection(snap, snap.conn[last.id].name, None))
    /\ (/\ last.op = "delete_conngroup"
        /\ last.name = None
        /\ last.id \in DOMAIN snap.cg) =>
           EndedAs(delete_connection_group(snap, snap.cg[last.id].name, None))

====
